---- MODULE Spec2Model ----
(***************************************************************************)
(* SillyTavern-Ensemble: the dispatch / routing / backoff core.            *)
(*                                                                         *)
(*   rate-limiter  (src/unnamed/part_002)  per-profile 429 bookkeeping     *)
(*   router        (src/src/router.js)     tier -> fallback chain,         *)
(*                                         singleProfileGenerate,          *)
(*                                         directGenerate                  *)
(*   orchestrator  (src/src/orchestrator.js, second copy, lines 641-1310)  *)
(*                                         spawnNPCResponses,              *)
(*                                         executeNPCRequest,              *)
(*                                         aggregateResults,               *)
(*                                         abortCurrentSpawn               *)
(*                                                                         *)
(* JavaScript is single threaded: one action of the model is one run of    *)
(* the event loop from an external event (a call of an exported function,  *)
(* the settlement of an awaited external promise, a clock tick) up to the  *)
(* point where every continuation is again waiting for an external event.  *)
(***************************************************************************)
EXTENDS Integers, Sequences, FiniteSets, TLC

\* ---------------------------------------------------------------- bounds
MaxBatches == 2
MaxTargets == 2
MaxUnits == 2
MaxTicks == 1
MaxErrors == 6
MaxOutcomes == 3
MaxChain == 3
MaxElapse == 4

\* ------------------------------------------------------ program constants
BASE_DELAY_MS == 5000
MAX_DELAY_MS == 300000

Null == [kind |-> "null"]

TIERS == {"orchestrator", "major", "standard", "minor", "utility"}

\* Names of the connection profiles known to the connection manager.
ConnectionProfiles == {"A", "B", "C"}

\* Key under which a request without a profile is tracked.
DefaultName == "default"

ProfileKeys == ConnectionProfiles \cup {DefaultName}

\* ============================================================ rate-limiter

NoRecord == [present |-> FALSE, isLimited |-> FALSE, nextAttemptTime |-> 0,
             consecutiveErrors |-> 0]

\* getState: the record of profileName, created with defaults when missing.
\* Returns the map after the lookup (the lookup itself inserts the record).
getState(rl, profileName) ==
    IF rl[profileName].present THEN rl
    ELSE [rl EXCEPT ![profileName] =
            [present |-> TRUE, isLimited |-> FALSE, nextAttemptTime |-> 0,
             consecutiveErrors |-> 0]]

Pow2(n) == 2 ^ n

\* Faulty variant: Math.max in place of Math.min.
Min_swapped(a, b) == IF a <= b THEN b ELSE a

Min(a, b) == IF a <= b THEN a ELSE b

\* Faulty variant: the exponent is one too small.
calculateBackoff_offByOne(errorCount) ==
    IF BASE_DELAY_MS * Pow2(errorCount - 1) <= MAX_DELAY_MS
    THEN BASE_DELAY_MS * Pow2(errorCount - 1) ELSE MAX_DELAY_MS

calculateBackoff(errorCount) ==
    Min(BASE_DELAY_MS * Pow2(errorCount), MAX_DELAY_MS)

\* Faulty variant: the end of the window also forgets the errors.
checkRateLimit_forgetsErrors(rl, profileName, t) ==
    LET s0 == getState(rl, profileName)
        st == s0[profileName]
    IN  IF ~st.isLimited
        THEN [state |-> s0, isLimited |-> FALSE, retryIn |-> 0]
        ELSE IF t >= st.nextAttemptTime
        THEN [state |-> [s0 EXCEPT ![profileName].isLimited = FALSE,
                                   ![profileName].consecutiveErrors = 0],
              isLimited |-> FALSE, retryIn |-> 0]
        ELSE [state |-> s0, isLimited |-> TRUE,
              retryIn |-> st.nextAttemptTime - t]

\* Faulty variant: a check that finds the profile limited counts as one
\* more error.
checkRateLimit_countsErrors(rl, profileName, t) ==
    LET s0 == getState(rl, profileName)
        st == s0[profileName]
    IN  IF ~st.isLimited
        THEN [state |-> s0, isLimited |-> FALSE, retryIn |-> 0]
        ELSE IF t >= st.nextAttemptTime
        THEN [state |-> [s0 EXCEPT ![profileName].isLimited = FALSE],
              isLimited |-> FALSE, retryIn |-> 0]
        ELSE [state |-> [s0 EXCEPT ![profileName].consecutiveErrors = @ + 1],
              isLimited |-> TRUE, retryIn |-> st.nextAttemptTime - t]

\* Faulty variant: the window is over only after nextAttemptTime.
checkRateLimit_strict(rl, profileName, t) ==
    LET s0 == getState(rl, profileName)
        st == s0[profileName]
    IN  IF ~st.isLimited
        THEN [state |-> s0, isLimited |-> FALSE, retryIn |-> 0]
        ELSE IF t > st.nextAttemptTime
        THEN [state |-> [s0 EXCEPT ![profileName].isLimited = FALSE],
              isLimited |-> FALSE, retryIn |-> 0]
        ELSE [state |-> s0, isLimited |-> TRUE,
              retryIn |-> st.nextAttemptTime - t]

\* checkRateLimit: [state |-> map after the call, isLimited, retryIn]
\* (retryIn 0 stands for the null of a profile that is not limited).
checkRateLimit(rl, profileName, t) ==
    LET s0 == getState(rl, profileName)
        st == s0[profileName]
    IN  IF ~st.isLimited
        THEN [state |-> s0, isLimited |-> FALSE, retryIn |-> 0]
        ELSE IF t >= st.nextAttemptTime
        THEN [state |-> [s0 EXCEPT ![profileName].isLimited = FALSE],
              isLimited |-> FALSE, retryIn |-> 0]
        ELSE [state |-> s0, isLimited |-> TRUE,
              retryIn |-> st.nextAttemptTime - t]

\* Faulty variant: only the error count is reset.
recordSuccess_keepLimited(rl, profileName) ==
    [getState(rl, profileName) EXCEPT ![profileName].consecutiveErrors = 0]

recordSuccess(rl, profileName) ==
    LET s0 == getState(rl, profileName)
    IN  [s0 EXCEPT ![profileName].consecutiveErrors = 0,
                   ![profileName].isLimited = FALSE,
                   ![profileName].nextAttemptTime = 0]

\* A number as JavaScript sees it: an integer or NaN (Null when absent).
Num(n) == [kind |-> "num", n |-> n]

NaN == [kind |-> "nan"]

\* A string, as the sequence of its characters.
Str(s) == [kind |-> "str", s |-> s]

\* The decimal digits, for parseInt.
Digits == <<"0", "1", "2", "3", "4", "5", "6", "7", "8", "9">>

IsDigit(c) == \E d \in 1..10 : Digits[d] = c

DigitVal(c) == (CHOOSE d \in 1..10 : Digits[d] = c) - 1

RECURSIVE ParseDigits(_, _, _)
\* value of the longest digit prefix of s starting at position p
ParseDigits(s, p, acc) ==
    IF p > Len(s) \/ ~IsDigit(s[p]) THEN acc
    ELSE ParseDigits(s, p + 1, acc * 10 + DigitVal(s[p]))

\* parseInt(text, 10) for texts without leading blanks: optional sign,
\* then the longest digit prefix; NaN when there is no digit.
parseInt(s) ==
    LET neg == Len(s) > 0 /\ s[1] = "-"
        p == IF Len(s) > 0 /\ s[1] \in {"-", "+"} THEN 2 ELSE 1
    IN  IF p > Len(s) \/ ~IsDigit(s[p]) THEN NaN
        ELSE IF neg THEN Num(0 - ParseDigits(s, p, 0))
        ELSE Num(ParseDigits(s, p, 0))

\* Faulty variant: the Retry-After value is ignored.
recordRateLimit_ignoreHeader(rl, profileName, retryAfter, t) ==
    LET s0 == getState(rl, profileName)
        errs == s0[profileName].consecutiveErrors + 1
        retryIn == Min(calculateBackoff(errs), MAX_DELAY_MS)
    IN  [state |-> [s0 EXCEPT ![profileName] =
                      [present |-> TRUE, isLimited |-> TRUE,
                       nextAttemptTime |-> t + retryIn,
                       consecutiveErrors |-> errs]],
         retryIn |-> retryIn,
         nextAttemptTime |-> t + retryIn]

\* Faulty variant: a profile that is already limited is not counted again.
recordRateLimit_countsOnce(rl, profileName, retryAfter, t) ==
    LET s0 == getState(rl, profileName)
        errs == IF s0[profileName].isLimited
                THEN s0[profileName].consecutiveErrors
                ELSE s0[profileName].consecutiveErrors + 1
        retryIn == Min(calculateBackoff(errs), MAX_DELAY_MS)
    IN  [state |-> [s0 EXCEPT ![profileName] =
                      [present |-> TRUE, isLimited |-> TRUE,
                       nextAttemptTime |-> t + retryIn,
                       consecutiveErrors |-> errs]],
         retryIn |-> retryIn,
         nextAttemptTime |-> t + retryIn]

\* Faulty variant: the time on record is kept when it is the later one.
recordRateLimit_keepsLater(rl, profileName, retryAfter, t) ==
    LET s0 == getState(rl, profileName)
        errs == s0[profileName].consecutiveErrors + 1
        headerValue == IF retryAfter.kind = "str"
                       THEN parseInt(retryAfter.s) ELSE retryAfter
        raw == IF /\ retryAfter.kind # "null"
                  /\ headerValue.kind = "num"
                  /\ headerValue.n > 0
               THEN headerValue.n * 1000
               ELSE calculateBackoff(errs)
        retryIn == Min(raw, MAX_DELAY_MS)
        next == IF s0[profileName].nextAttemptTime > t + retryIn
                THEN s0[profileName].nextAttemptTime ELSE t + retryIn
    IN  [state |-> [s0 EXCEPT ![profileName] =
                      [present |-> TRUE, isLimited |-> TRUE,
                       nextAttemptTime |-> next,
                       consecutiveErrors |-> errs]],
         retryIn |-> retryIn,
         nextAttemptTime |-> next]

\* recordRateLimit: [state |-> map after the call, retryIn, nextAttemptTime]
\* retryAfter is Null (null or undefined), a string Str(s), NaN or Num(n).
recordRateLimit(rl, profileName, retryAfter, t) ==
    LET s0 == getState(rl, profileName)
        errs == s0[profileName].consecutiveErrors + 1
        headerValue == IF retryAfter.kind = "str"
                       THEN parseInt(retryAfter.s) ELSE retryAfter
        raw == IF /\ retryAfter.kind # "null"
                  /\ headerValue.kind = "num"
                  /\ headerValue.n > 0
               THEN headerValue.n * 1000
               ELSE calculateBackoff(errs)
        retryIn == Min(raw, MAX_DELAY_MS)
    IN  [state |-> [s0 EXCEPT ![profileName] =
                      [present |-> TRUE, isLimited |-> TRUE,
                       nextAttemptTime |-> t + retryIn,
                       consecutiveErrors |-> errs]],
         retryIn |-> retryIn,
         nextAttemptTime |-> t + retryIn]

\* Faulty variant: clearing one profile empties the map.
clearRateLimit_all(rl, profileName) == [p \in DOMAIN rl |-> NoRecord]

\* clearRateLimit: the record of profileName is deleted from the map.
clearRateLimit(rl, profileName) == [rl EXCEPT ![profileName] = NoRecord]

\* clearAllRateLimits: the map is emptied.
clearAllRateLimits(rl) == [p \in DOMAIN rl |-> NoRecord]

\* ================================================================== router

\* Fuse search over the profile names: the best fuzzy match of a configured
\* name that is not an exact profile name, "" when the search finds nothing.
FuzzyMatch(profileName) ==
    IF profileName = "a" THEN "A" ELSE ""

\* Faulty variant: the first name that resolves to nothing ends the chain.
RECURSIVE resolveProfilesToArray_stopsAtUnknown(_)
resolveProfilesToArray_stopsAtUnknown(profileNames) ==
    IF profileNames = <<>> THEN <<>>
    ELSE LET h == Head(profileNames)
             rest == resolveProfilesToArray_stopsAtUnknown(Tail(profileNames))
         IN  IF h = "" THEN rest
             ELSE IF h \in ConnectionProfiles THEN <<h>> \o rest
             ELSE IF FuzzyMatch(h) \in ConnectionProfiles
             THEN <<FuzzyMatch(h)>> \o rest
             ELSE <<>>

\* resolveProfilesToArray: exact match by name, then fuzzy match; empty
\* names and names that resolve to no profile are skipped.
RECURSIVE resolveProfilesToArray(_)
resolveProfilesToArray(profileNames) ==
    IF profileNames = <<>> THEN <<>>
    ELSE LET h == Head(profileNames)
             rest == resolveProfilesToArray(Tail(profileNames))
         IN  IF h = "" THEN rest
             ELSE IF h \in ConnectionProfiles THEN <<h>> \o rest
             ELSE IF FuzzyMatch(h) \in ConnectionProfiles
             THEN <<FuzzyMatch(h)>> \o rest
             ELSE rest

getProfilesForTier(cfg, tier) ==
    IF tier \notin DOMAIN cfg \/ cfg[tier] = <<>> THEN <<>>
    ELSE resolveProfilesToArray(cfg[tier])

\* A connection profile object is identified by its name.
Profile(name) == [kind |-> "profile", name |-> name]

\* getProfileForTier: first profile of the chain, Null when there is none.
getProfileForTier(cfg, tier) ==
    LET ps == getProfilesForTier(cfg, tier)
    IN  IF Len(ps) > 0 THEN Profile(ps[1]) ELSE Null

\* Math.ceil(ms / 1000) for ms >= 0
CeilSeconds(ms) == (ms + 999) \div 1000

\* The loop of getNextAvailableProfile from chain index i (1-based) on:
\* [profile, skipped, state |-> the rate limiter map after the checks].
RECURSIVE gnapLoop(_, _, _, _, _)

\* Faulty variant: a limited profile is passed over without a skip entry.
gnapSkip_unlisted(rl, profiles, i, skipped, retryIn, t) ==
    gnapLoop(rl, profiles, i + 1, skipped, t)

\* The profile at index i is rate limited: it is recorded and the loop
\* continues.
gnapSkip(rl, profiles, i, skipped, retryIn, t) ==
    gnapLoop(rl, profiles, i + 1,
             Append(skipped, [name |-> profiles[i],
                              reason |-> [kind |-> "RateLimited",
                                          seconds |-> CeilSeconds(retryIn)]]),
             t)

gnapLoop(rl, profiles, i, skipped, t) ==
    IF i > Len(profiles)
    THEN [profile |-> Null, skipped |-> skipped, state |-> rl]
    ELSE LET limitCheck == checkRateLimit(rl, profiles[i], t)
         IN  IF ~limitCheck.isLimited
             THEN [profile |-> Profile(profiles[i]), skipped |-> skipped,
                   state |-> limitCheck.state]
             ELSE gnapSkip(limitCheck.state, profiles, i, skipped,
                           limitCheck.retryIn, t)

getNextAvailableProfile(cfg, rl, tier, t) ==
    LET profiles == getProfilesForTier(cfg, tier)
    IN  IF Len(profiles) = 0
        THEN [profile |-> Null, skipped |-> <<>>, state |-> rl]
        ELSE gnapLoop(rl, profiles, 1, <<>>, t)

\* ---------------------------------------------------------- error objects

\* Error messages. The kinds of FormattedKinds are the messages the router
\* builds itself, which all start with "[Ensemble]".
Msg(kind) == [kind |-> kind]

RateLimitedMsg(p) == [kind |-> "RateLimited", profile |-> p]

Rate429Msg(p) == [kind |-> "RateLimit429", profile |-> p]

HttpMsg(p, status) == [kind |-> "Http", profile |-> p, status |-> status]

NetworkMsg(p, inner) == [kind |-> "Network", profile |-> p, inner |-> inner]

\* Faulty variant: the exhaustion message names only the last profile tried.
ExhaustedMsg_lastOnly(tried, last) ==
    [kind |-> "Exhausted",
     tried |-> IF tried = <<>> THEN <<>> ELSE <<tried[Len(tried)]>>,
     last |-> last]

ExhaustedMsg(tried, last) ==
    [kind |-> "Exhausted", tried |-> tried, last |-> last]

FormattedKinds == {"RateLimited", "RateLimit429", "Http", "Network", "Exhausted"}

\* error.message?.startsWith("[Ensemble]")
startsWithModuleName(msg) == msg.kind \in FormattedKinds

Err(name, message, isRateLimited) ==
    [name |-> name, message |-> message, isRateLimited |-> isRateLimited]

\* What fetch rejects with when its signal is aborted.
AbortError == Err("AbortError", Msg("The operation was aborted"), FALSE)

\* What fetch rejects with when the transport fails.
FetchFailed == Err("TypeError", Msg("Failed to fetch"), FALSE)

\* What response.json() rejects with on a malformed body.
BadJson == Err("SyntaxError", Msg("Unexpected token"), FALSE)

nameOf(profile) == IF profile.kind = "profile" THEN profile.name ELSE DefaultName

\* --------------------------------------------------- singleProfileGenerate

\* Faulty variant: the request is made without consulting the rate limiter.
spgStart_unchecked(rl, profile, t) ==
    [kind |-> "fetch", state |-> rl, error |-> Null]

\* Faulty variant: a refused attempt is recorded as one more rate limit.
spgStart_countsRefusal(rl, profile, t) ==
    LET profileName == nameOf(profile)
        limitCheck == checkRateLimit(rl, profileName, t)
    IN  IF limitCheck.isLimited
        THEN [kind |-> "throw",
              state |-> recordRateLimit(limitCheck.state, profileName,
                                        Null, t).state,
              error |-> Err("Error", RateLimitedMsg(profileName), TRUE)]
        ELSE [kind |-> "fetch", state |-> limitCheck.state, error |-> Null]

\* Up to the fetch call: the rate-limit check refuses a limited profile
\* before any request is made.
spgStart(rl, profile, t) ==
    LET profileName == nameOf(profile)
        limitCheck == checkRateLimit(rl, profileName, t)
    IN  IF limitCheck.isLimited
        THEN [kind |-> "throw", state |-> limitCheck.state,
              error |-> Err("Error", RateLimitedMsg(profileName), TRUE)]
        ELSE [kind |-> "fetch", state |-> limitCheck.state, error |-> Null]

\* Faulty variant: every response that is not ok counts as a rate limit.
spgResponse_countsEveryError(rl, profile, resp, t) ==
    LET profileName == nameOf(profile)
        limitInfo == recordRateLimit(rl, profileName, Null, t)
    IN  IF resp.kind # "http"
        THEN [kind |-> "throw", state |-> rl, error |-> FetchFailed]
        ELSE IF resp.status >= 200 /\ resp.status <= 299
        THEN [kind |-> "body", state |-> rl, error |-> Null]
        ELSE IF resp.status = 429
        THEN [kind |-> "throw", state |-> limitInfo.state,
              error |-> Err("Error", Rate429Msg(profileName), TRUE)]
        ELSE [kind |-> "throw", state |-> limitInfo.state,
              error |-> Err("Error", HttpMsg(profileName, resp.status), FALSE)]

\* From the settlement of fetch to the next await or throw.
\* resp is [kind "neterr"] (fetch rejected) or [kind "http", status,
\* retryAfter]; retryAfter is the header text, <<>> when absent or empty.
spgResponse(rl, profile, resp, t) ==
    LET profileName == nameOf(profile)
    IN  IF resp.kind # "http"
        THEN [kind |-> "throw", state |-> rl, error |-> FetchFailed]
        ELSE IF resp.status >= 200 /\ resp.status <= 299
        THEN [kind |-> "body", state |-> rl, error |-> Null]
        ELSE IF resp.status = 429
        THEN LET retryAfterSeconds ==
                     IF resp.retryAfter = <<>>
                     THEN Null ELSE parseInt(resp.retryAfter)
                 limitInfo == recordRateLimit(rl, profileName,
                                              retryAfterSeconds, t)
             IN  [kind |-> "throw", state |-> limitInfo.state,
                  error |-> Err("Error", Rate429Msg(profileName), TRUE)]
        ELSE [kind |-> "throw", state |-> rl,
              error |-> Err("Error", HttpMsg(profileName, resp.status), FALSE)]

\* Faulty variant: the success is not reported to the rate limiter.
spgBody_unrecorded(rl, profile, parsed) ==
    IF parsed
    THEN [kind |-> "return", state |-> rl, error |-> Null]
    ELSE [kind |-> "throw", state |-> rl, error |-> BadJson]

\* From the settlement of response.json() to the return or throw.
spgBody(rl, profile, parsed) ==
    IF parsed
    THEN [kind |-> "return", state |-> recordSuccess(rl, nameOf(profile)),
          error |-> Null]
    ELSE [kind |-> "throw", state |-> rl, error |-> BadJson]

\* ---------------------------------------------------------- directGenerate

\* The catch blocks of directGenerate: an error whose message the router
\* formatted is re-thrown as it is, any other error is replaced by a new
\* Error("[Ensemble] Network error ... using profile ...").
dgWrap(error, profileName) ==
    IF startsWithModuleName(error.message) THEN error
    ELSE Err("Error", NetworkMsg(profileName, error.message), FALSE)

\* Outcome of running directGenerate up to its next await:
\*   kind "fetch"  a request to profiles[i] (or to the provided profile in
\*                 mode "single") is awaited,
\*   kind "body"   the response body is awaited,
\*   kind "return" the call returned the parsed result,
\*   kind "throw"  the call threw error.
DG(kind, mode, profiles, i, tried, lastError, state, error) ==
    [kind |-> kind, mode |-> mode, profiles |-> profiles, i |-> i,
     tried |-> tried, lastError |-> lastError, state |-> state,
     error |-> error]

\* The for loop over the fallback chain from index i (1-based) on, up to
\* the first entry whose request is issued or to the exhaustion of the chain.
RECURSIVE dgLoop(_, _, _, _, _, _), dgDispatch(_, _, _, _, _, _)
dgLoop(rl, profiles, i, tried, lastError, t) ==
    IF i > Len(profiles)
    THEN DG("throw", "chain", profiles, i, tried, lastError, rl,
            Err("Error",
                ExhaustedMsg(tried, IF lastError = Null
                                    THEN Msg("Unknown error")
                                    ELSE lastError.message),
                FALSE))
    ELSE LET triedProfiles == Append(tried, profiles[i])
             r == spgStart(rl, Profile(profiles[i]), t)
         IN  IF r.kind = "fetch"
             THEN DG("fetch", "chain", profiles, i, triedProfiles, lastError,
                     r.state, Null)
             ELSE dgDispatch(r.state, profiles, i, triedProfiles, r.error, t)

\* Faulty variant: every failure moves on to the next chain entry.
dgDispatch_alwaysAdvance(rl, profiles, i, tried, error, t) ==
    dgLoop(rl, profiles, i + 1, tried, error, t)

\* The catch block inside the loop, for the error thrown on entry i.
dgDispatch(rl, profiles, i, tried, error, t) ==
    IF error.isRateLimited
    THEN dgLoop(rl, profiles, i + 1, tried, error, t)
    ELSE DG("throw", "chain", profiles, i, tried, error, rl,
            dgWrap(error, profiles[i]))

\* Faulty variant: the provided profile is never found in the chain.
findIndex_never(profiles, name) == 0

\* Index of the first chain entry named name, 0 when there is none.
findIndex(profiles, name) ==
    IF \E j \in 1..Len(profiles) : profiles[j] = name
    THEN CHOOSE j \in 1..Len(profiles) :
            /\ profiles[j] = name
            /\ \A h \in 1..(j - 1) : profiles[h] # name
    ELSE 0

\* The single-profile paths (fallback disabled, unknown tier, empty chain).
dgSingle(rl, profile, t) ==
    LET r == spgStart(rl, profile, t)
    IN  IF r.kind = "fetch"
        THEN DG("fetch", "single", <<>>, 0, <<>>, Null, r.state, Null)
        ELSE DG("throw", "single", <<>>, 0, <<>>, Null, r.state,
                dgWrap(r.error, nameOf(profile)))

\* Faulty variant: a tier without chain borrows the chain of "standard".
directGenerate_borrowsStandard(cfg, rl, profile, tier, useFallback, t) ==
    dgLoop(rl, getProfilesForTier(cfg, "standard"), 1, <<>>, Null, t)

\* directGenerate from its call to its first await.
directGenerate(cfg, rl, profile, tier, useFallback, t) ==
    IF ~useFallback \/ tier \notin TIERS
    THEN dgSingle(rl, profile, t)
    ELSE LET profiles == getProfilesForTier(cfg, tier)
         IN  IF Len(profiles) = 0
             THEN dgSingle(rl, profile, t)
             ELSE LET providedIndex ==
                          IF profile.kind = "profile"
                          THEN findIndex(profiles, profile.name) ELSE 0
                      startIndex ==
                          IF providedIndex # 0 THEN providedIndex ELSE 1
                  IN  dgLoop(rl, profiles, startIndex, <<>>, Null, t)

\* The profile the awaited request of a suspended call was made to.
dgProfile(d, provided) ==
    IF d.mode = "chain" THEN Profile(d.profiles[d.i]) ELSE provided

\* directGenerate resumed by the settlement of the awaited fetch.
dgOnResponse(d, provided, rl, resp, t) ==
    LET p == dgProfile(d, provided)
        r == spgResponse(rl, p, resp, t)
    IN  IF r.kind = "body"
        THEN DG("body", d.mode, d.profiles, d.i, d.tried, d.lastError,
                r.state, Null)
        ELSE IF d.mode = "chain"
        THEN dgDispatch(r.state, d.profiles, d.i, d.tried, r.error, t)
        ELSE DG("throw", "single", <<>>, 0, <<>>, Null, r.state,
                dgWrap(r.error, nameOf(p)))

\* directGenerate resumed by the settlement of the awaited response.json().
dgOnBody(d, provided, rl, parsed, t) ==
    LET p == dgProfile(d, provided)
        r == spgBody(rl, p, parsed)
    IN  IF r.kind = "return"
        THEN DG("return", d.mode, d.profiles, d.i, d.tried, d.lastError,
                r.state, Null)
        ELSE IF d.mode = "chain"
        THEN dgDispatch(r.state, d.profiles, d.i, d.tried, r.error, t)
        ELSE DG("throw", "single", <<>>, 0, <<>>, Null, r.state,
                dgWrap(r.error, nameOf(p)))

\* directGenerate resumed by the rejection of the awaited fetch or body read
\* with the AbortError of an aborted signal.
dgOnAbort(d, provided, rl, t) ==
    IF d.mode = "chain"
    THEN dgDispatch(rl, d.profiles, d.i, d.tried, AbortError, t)
    ELSE DG("throw", "single", <<>>, 0, <<>>, Null, rl,
            dgWrap(AbortError, nameOf(dgProfile(d, provided))))

\* ============================================================ orchestrator

\* The characters the resolver knows. "Alice" is a SillyTavern card (the
\* request awaits inferTier and buildNPCPromptWithContext), every other
\* non-blank name resolves to a virtual character (session stub, tier
\* "minor"); a blank name makes resolveCharacter throw.
CardNames == {"Alice"}

Names == {"Alice", "Bob", ""}

\* inferTier for the card characters.
inferTier(npcName) == "standard"

\* The tier -> profile names settings the model is run with.
TierConfigs ==
    { [standard |-> <<"A", "B">>, minor |-> <<>>] }

\* `npcs[index] || "NPC_" + index` for the 0-based index of position k.
NpcLabels == <<"NPC_0", "NPC_1", "NPC_2", "NPC_3">>

Fulfilled(v) == [status |-> "fulfilled", value |-> v, reason |-> Null]

Rejected(e) == [status |-> "rejected", value |-> Null, reason |-> e]

Locals(d) ==
    [mode |-> d.mode, profiles |-> d.profiles, i |-> d.i, tried |-> d.tried,
     lastError |-> d.lastError]

NoLocals ==
    [mode |-> "single", profiles |-> <<>>, i |-> 0, tried |-> <<>>,
     lastError |-> Null]

\* One element of npcRequests: the async callback of npcs.map for npcName.
\*   pc        "resolving"  awaiting inside resolveCharacter
\*             "building"   awaiting inferTier / buildNPCPromptWithContext
\*             "fetch"      awaiting fetch
\*             "body"       awaiting response.json()
\*             "settled"    the promise is settled
\*   wire      a network request of the unit is on the wire: fetch was called
\*             with a signal that was not aborted, and has not settled
NewUnit(npcName) ==
    [pc |-> IF npcName = "" THEN "settled" ELSE "resolving",
     npc |-> npcName, startTime |-> 0, tier |-> "none", provided |-> Null,
     dg |-> NoLocals, wire |-> FALSE,
     settled |-> IF npcName = ""
                 THEN Rejected(Err("Error", Msg("Character name is required"),
                                   FALSE))
                 ELSE Null]

\* The value executeNPCRequest returns from its try block.
successOutcome(npcName, latency, tier) ==
    [npc |-> npcName, success |-> TRUE, response |-> "text", error |-> Null,
     latency |-> latency, tier |-> tier]

\* The value executeNPCRequest returns from its catch block.
catchOutcome(npcName, error, latency) ==
    LET isAborted == error.name = "AbortError"
    IN  [npc |-> npcName, success |-> FALSE, response |-> "null",
         error |-> IF isAborted THEN Msg("Aborted") ELSE error.message,
         latency |-> latency, tier |-> "none"]

\* The promise of the unit settles; its locals are gone with its frame.
settle(u, settlement) ==
    [u EXCEPT !.pc = "settled", !.startTime = 0, !.tier = "none",
              !.provided = Null, !.dg = NoLocals, !.wire = FALSE,
              !.settled = settlement]

\* executeNPCRequest after directGenerate ran up to its next await r; live
\* tells that the signal passed to fetch is not aborted.
afterDG(u, r, t, live) ==
    IF r.kind = "fetch"
    THEN [u EXCEPT !.pc = "fetch", !.dg = Locals(r), !.wire = live]
    ELSE IF r.kind = "body"
    THEN [u EXCEPT !.pc = "body", !.dg = Locals(r)]
    ELSE IF r.kind = "return"
    THEN settle(u, Fulfilled(successOutcome(u.npc, t - u.startTime, u.tier)))
    ELSE settle(u, Fulfilled(catchOutcome(u.npc, r.error, t - u.startTime)))

\* ------------------------------------------------------- aggregateResults

RECURSIVE SumLatency(_)
SumLatency(rs) ==
    IF rs = <<>> THEN 0 ELSE Head(rs).latency + SumLatency(Tail(rs))

\* Math.round(a / n) for a >= 0, n > 0
RoundDiv(a, n) == (2 * a + n) \div (2 * n)

\* Faulty variant: no outcome is taken for an aborted one.
isAbortedOutcome_never(r) == FALSE

isAbortedOutcome(r) == ~r.success /\ r.error = Msg("Aborted")

\* Faulty variant: rejected promises are left out of the processed results.
processedOf_skipRejected(results, npcs) ==
    LET kept == SelectSeq(results, LAMBDA r : r.status = "fulfilled")
    IN  [index \in 1..Len(kept) |-> kept[index].value]

processedOf(results, npcs) ==
    [index \in 1..Len(results) |->
        IF results[index].status = "fulfilled"
        THEN results[index].value
        ELSE [npc |-> IF npcs[index] # "" THEN npcs[index]
                      ELSE NpcLabels[index],
              success |-> FALSE, response |-> "null",
              error |-> results[index].reason.message,
              latency |-> 0, tier |-> "none"]]

\* Faulty variant: the sections are written last result first.
markdownOf_reversed(nonAborted) ==
    [kind |-> "responses",
     items |-> [j \in 1..Len(nonAborted) |->
                  LET r == nonAborted[Len(nonAborted) + 1 - j]
                  IN  [npc |-> r.npc, failed |-> ~r.success,
                       text |-> r.response, error |-> r.error]]]

markdownOf(nonAborted) ==
    [kind |-> "responses",
     items |-> [j \in 1..Len(nonAborted) |->
                  [npc |-> nonAborted[j].npc,
                   failed |-> ~nonAborted[j].success,
                   text |-> nonAborted[j].response,
                   error |-> nonAborted[j].error]]]

aggregateResults(results, npcs) ==
    LET processed == processedOf(results, npcs)
        nonAborted == SelectSeq(processed, LAMBDA r : ~isAbortedOutcome(r))
        successCount == Len(SelectSeq(nonAborted, LAMBDA r : r.success))
        failCount == Len(SelectSeq(nonAborted, LAMBDA r : ~r.success))
        totalLatency == SumLatency(nonAborted)
        avgLatency == IF Len(nonAborted) > 0
                      THEN RoundDiv(totalLatency, Len(nonAborted)) ELSE 0
    IN  [results |-> processed,
         markdown |-> markdownOf(nonAborted),
         stats |-> [total |-> Len(nonAborted), success |-> successCount,
                    failed |-> failCount, avgLatency |-> avgLatency]]

\* Faulty variant: the early return reports the call as one failed target.
emptyResult_countsCall(why) ==
    [results |-> <<>>,
     markdown |-> [kind |-> why, items |-> <<>>],
     stats |-> [total |-> 1, success |-> 0, failed |-> 1, avgLatency |-> 0]]

\* The result of the two input-validation early returns.
emptyResult(why) ==
    [results |-> <<>>,
     markdown |-> [kind |-> why, items |-> <<>>],
     stats |-> [total |-> 0, success |-> 0, failed |-> 0, avgLatency |-> 0]]

\* ================================================================== state

VARIABLES
    now,                     \* Date.now(), ms since the start of the run
    rateLimitState,          \* rate-limiter: profile name -> record
    tierProfiles,            \* settings.tierProfiles
    currentAbortController,  \* 0 (null) or the batch whose controller it is
    batches,                 \* the spawnNPCResponses calls so far, in order
    stopLog,                 \* the call of abortCurrentSpawn just made, if any
    lastCall,                \* the direct call of an exported function of the
                             \* rate limiter or of aggregateResults just made
    page,                    \* ui-lock: the send button and the textarea
    lockCalls,               \* ui-lock: the withInputLock calls so far
    toolsRegistered,         \* tools: the module's flag
    toolManager,             \* tools: the names SillyTavern holds a tool for
    toolLog,                 \* tools: the call of the module just made
    sessionCharacters,       \* character-resolver: lowercase name -> character
    sessionStorage,          \* character-resolver: the characters last saved
    sessionLog,              \* character-resolver: per character the responses
                             \* addGeneratedResponse has added, in order
    lorebook,                \* promoter: entry key -> entries SillyTavern holds
    promotions               \* promoter: the promoteToLorebook calls so far

coreVars == <<now, rateLimitState, tierProfiles, currentAbortController,
              batches, stopLog, lastCall>>

lockVars == <<page, lockCalls>>

toolVars == <<toolsRegistered, toolManager, toolLog>>

sessionVars == <<sessionCharacters, sessionStorage, sessionLog>>

promoterVars == <<lorebook, promotions>>

vars == <<coreVars, lockVars, toolVars, sessionVars, promoterVars>>

\* The state of the modules the orchestrator, the router and the rate
\* limiter never touch.
otherModules == <<lockVars, toolVars, sessionVars, promoterVars>>

\* A DOM element matched by a selector: whether it exists, its disabled
\* property and whether it carries LOCK_CLASS.
Element(present) == [present |-> present, disabled |-> FALSE, locked |-> FALSE]

InitLockModule ==
    /\ page = [button |-> Element(TRUE), textarea |-> Element(TRUE)]
    /\ lockCalls = <<>>

\* TOOL_DEFINITIONS and REGISTERED_TOOL_NAMES hold the same names in the
\* same order.
TOOL_NAMES ==
    <<"spawn_npc_responses", "query_npc_knowledge", "resolve_action",
      "audit_narrative">>

ToolNameSet == {TOOL_NAMES[i] : i \in 1..Len(TOOL_NAMES)}

\* toolLog when the last step was no call of the tools module. since[n]
\* counts the registrations of n since the last call of unregisterTools,
\* calls the calls of the module so far.
NoToolCall(since) ==
    [op |-> "none", was |-> FALSE, ret |-> FALSE, registered |-> {},
     hostCan |-> FALSE, since |-> since, calls |-> 0]

InitToolsModule ==
    /\ toolsRegistered = FALSE
    /\ toolManager = {}
    /\ toolLog = NoToolCall([n \in ToolNameSet |-> 0])

\* Keys of the sessionCharacters map: names in lower case.
SessionKeys == {"bob", "eve"}

\* sessionStorage.getItem(key) is null.
InitSessionModule ==
    /\ sessionCharacters = [k \in SessionKeys |-> Null]
    /\ sessionStorage = Null
    /\ sessionLog = [k \in SessionKeys |-> <<>>]

\* `${CHARACTER_ENTRY_PREFIX}${name.toLowerCase().replace(/ /g, '_')}` of
\* the names above.
EntryKeys == {"ensemble_character:" \o k : k \in SessionKeys}

InitPromoterModule ==
    /\ lorebook = [e \in EntryKeys |-> 0]
    /\ promotions = <<>>

InitOtherModules ==
    /\ InitLockModule
    /\ InitToolsModule
    /\ InitSessionModule
    /\ InitPromoterModule

\* Inputs of spawnNPCResponses: npcs is an array of names or no array.
TargetLists ==
    UNION {[1..n -> Names] : n \in 0..MaxTargets}

NpcInputs ==
    {[isArray |-> FALSE, list |-> <<>>]}
        \cup {[isArray |-> TRUE, list |-> l] : l \in TargetLists}

Situations == {"", "The door bursts open"}

\* What the backend can answer to one request.
Statuses == {200, 429, 500}

RetryAfterHeaders == {<<>>}

Responses ==
    {[kind |-> "neterr", status |-> 0, retryAfter |-> <<>>]}
        \cup {[kind |-> "http", status |-> s, retryAfter |-> <<>>] :
                 s \in Statuses \ {429}}
        \cup {[kind |-> "http", status |-> 429, retryAfter |-> h] :
                 h \in RetryAfterHeaders}

\* stopLog when the last step was not a call of abortCurrentSpawn.
NoStop == [called |-> FALSE, returned |-> FALSE, wasActive |-> FALSE]

\* lastCall when the last step was no such call. streak[p] is the wait the
\* latest recordRateLimit(p) without Retry-After returned since the last
\* recordSuccess or clear of p, 0 when there was none.
NoStreak == [p \in ProfileKeys |-> 0]

NoCall(streak) ==
    [op |-> "none", profile |-> "", arg |-> Null, header |-> Null,
     was |-> NoRecord, isLimited |-> FALSE, retryIn |-> 0,
     results |-> <<>>, npcs |-> <<>>, ret |-> Null, streak |-> streak]

Init ==
    /\ now = 0
    /\ rateLimitState = [p \in ProfileKeys |-> NoRecord]
    /\ tierProfiles \in TierConfigs
    /\ currentAbortController = 0
    /\ batches = <<>>
    /\ stopLog = NoStop
    /\ lastCall = NoCall(NoStreak)
    /\ InitOtherModules

\* A batch is active while its requests are being worked on and its token
\* has not been aborted.
Active(bs, b) == bs[b].state = "running" /\ ~bs[b].aborted

\* Faulty variant: aborting also marks the outcomes already produced by the
\* batch as aborted.
abort_rewriting(bs, c) ==
    [bs EXCEPT ![c].aborted = TRUE,
               ![c].units =
                   [k \in 1..Len(bs[c].units) |->
                       LET u == bs[c].units[k]
                       IN  IF u.pc = "settled" /\ u.settled.status = "fulfilled"
                           THEN [u EXCEPT !.settled =
                                    Fulfilled([u.settled.value EXCEPT
                                                  !.success = FALSE,
                                                  !.response = "null",
                                                  !.error = Msg("Aborted")])]
                           ELSE u]]

\* AbortController.abort() of batch c's controller.
abort(bs, c) == [bs EXCEPT ![c].aborted = TRUE]

\* Faulty variant: the previous controller is left alone.
supersede_none(bs, cur) == bs

\* The head of spawnNPCResponses: a controller left in
\* currentAbortController (cur, 0 when null) is aborted.
supersede(bs, cur) == IF cur # 0 THEN abort(bs, cur) ELSE bs

\* Faulty variant: the new controller is installed first, and then the
\* "current" controller, now the new one, is aborted.
spawnControllers_abortNew(bs, cur, batch) ==
    IF cur # 0 THEN [Append(bs, batch) EXCEPT ![Len(bs) + 1].aborted = TRUE]
    ELSE Append(bs, batch)

\* ... and a new controller is installed for the batch of this call.
spawnControllers(bs, cur, batch) == Append(supersede(bs, cur), batch)

settledOf(units) == [k \in 1..Len(units) |-> units[k].settled]

\* Faulty variant: Promise.all in place of Promise.allSettled, the call
\* rejects as soon as one element is rejected.
complete_promiseAll(bs, b) ==
    IF bs[b].state # "running" THEN bs
    ELSE IF \E k \in 1..Len(bs[b].units) :
                /\ bs[b].units[k].pc = "settled"
                /\ bs[b].units[k].settled.status = "rejected"
    THEN [bs EXCEPT ![b].state = "rejected"]
    ELSE IF \A k \in 1..Len(bs[b].units) : bs[b].units[k].pc = "settled"
    THEN [bs EXCEPT ![b].state = "returned",
                    ![b].result = aggregateResults(settledOf(bs[b].units),
                                                   bs[b].npcs)]
    ELSE bs

\* Faulty variant: Promise.any in place of Promise.allSettled, the call
\* goes on as soon as one element is settled.
complete_promiseAny(bs, b) ==
    IF /\ bs[b].state = "running"
       /\ \E k \in 1..Len(bs[b].units) : bs[b].units[k].pc = "settled"
    THEN [bs EXCEPT ![b].state = "returned",
                    ![b].result =
                        aggregateResults(
                            SelectSeq(settledOf(bs[b].units),
                                      LAMBDA x : x # Null),
                            bs[b].npcs)]
    ELSE bs

\* Promise.allSettled(npcRequests) and what follows it: once the last
\* element is settled the call aggregates and returns.
complete(bs, b) ==
    IF /\ bs[b].state = "running"
       /\ \A k \in 1..Len(bs[b].units) : bs[b].units[k].pc = "settled"
    THEN [bs EXCEPT ![b].state = "returned",
                    ![b].result = aggregateResults(settledOf(bs[b].units),
                                                   bs[b].npcs)]
    ELSE bs

\* The number of targets submitted so far.
RECURSIVE unitCount(_)
unitCount(bs) ==
    IF bs = <<>> THEN 0 ELSE Len(Head(bs).npcs) + unitCount(Tail(bs))

\* spawnNPCResponses({npcs, situation}) up to its await.
Spawn(npcs, situation) ==
    /\ Len(batches) < MaxBatches
    /\ unitCount(batches) + Len(npcs.list) <= MaxUnits
    /\ LET b == Len(batches) + 1
           early(why) == [npcs |-> npcs.list, situation |-> situation,
                          state |-> "returned",
                          aborted |-> FALSE, units |-> <<>>,
                          result |-> emptyResult(why)]
           started == [npcs |-> npcs.list, situation |-> situation,
                       state |-> "running", aborted |-> FALSE,
                       units |-> [k \in 1..Len(npcs.list) |->
                                     NewUnit(npcs.list[k])],
                       result |-> emptyResult("pending")]
           batch == IF ~npcs.isArray \/ Len(npcs.list) = 0
                    THEN early("No NPCs specified")
                    ELSE IF situation = ""
                    THEN early("No situation provided")
                    ELSE started
       IN  batches' = complete(spawnControllers(batches,
                                                currentAbortController,
                                                batch), b)
    /\ currentAbortController' = Len(batches) + 1
    /\ stopLog' = NoStop
    /\ UNCHANGED <<now, rateLimitState, tierProfiles, otherModules, lastCall>>

\* abortCurrentSpawn()
AbortCurrentSpawn ==
    IF currentAbortController # 0
    THEN /\ batches' = abort(batches, currentAbortController)
         /\ currentAbortController' = 0
         /\ stopLog' = [called |-> TRUE, returned |-> TRUE,
                        wasActive |-> \E b \in 1..Len(batches) :
                                         Active(batches, b)]
         /\ UNCHANGED <<now, rateLimitState, tierProfiles, otherModules, lastCall>>
    ELSE /\ stopLog' = [called |-> TRUE, returned |-> FALSE,
                        wasActive |-> \E b \in 1..Len(batches) :
                                         Active(batches, b)]
         /\ UNCHANGED <<now, rateLimitState, tierProfiles, otherModules,
                        currentAbortController, batches, lastCall>>

\* Time passes.
Tick ==
    /\ now < MaxTicks * BASE_DELAY_MS
    /\ now' = now + BASE_DELAY_MS
    /\ stopLog' = NoStop
    /\ lastCall' = NoCall(lastCall.streak)
    /\ UNCHANGED <<rateLimitState, tierProfiles, otherModules, currentAbortController,
                   batches>>

\* The unit k of batch b moves to u2, leaving the rate limiter as rl2.
step(b, k, u2, rl2) ==
    /\ batches' = complete([batches EXCEPT ![b].units[k] = u2], b)
    /\ rateLimitState' = rl2
    /\ stopLog' = NoStop
    /\ UNCHANGED <<now, tierProfiles, otherModules, currentAbortController, lastCall>>

\* executeNPCRequest from the point where tier and profile are known to the
\* first await inside directGenerate.
callDirectGenerate(u, tier, live) ==
    LET profile == getProfileForTier(tierProfiles, tier)
        u1 == [u EXCEPT !.tier = tier, !.provided = profile]
        r == directGenerate(tierProfiles, rateLimitState, profile, tier,
                            TRUE, now)
    IN  [unit |-> afterDG(u1, r, now, live), state |-> r.state]

\* resolveCharacter(npcName) resolves. A virtual character goes on, without
\* another await, through executeNPCRequest into directGenerate; a card
\* character starts executeNPCRequest and awaits inferTier.
ResolveDone(b, k) ==
    /\ b \in 1..Len(batches) /\ k \in 1..Len(batches[b].units)
    /\ batches[b].units[k].pc = "resolving"
    /\ LET u == [batches[b].units[k] EXCEPT !.startTime = now]
       IN  IF u.npc \in CardNames
           THEN step(b, k, [u EXCEPT !.pc = "building"], rateLimitState)
           ELSE LET c == callDirectGenerate(u, "minor", ~batches[b].aborted)
                IN  step(b, k, c.unit, c.state)

\* inferTier and buildNPCPromptWithContext resolve (built), or the prompt
\* builder throws because the card is gone (~built).
BuildDone(b, k, built) ==
    /\ b \in 1..Len(batches) /\ k \in 1..Len(batches[b].units)
    /\ batches[b].units[k].pc = "building"
    /\ LET u == batches[b].units[k]
       IN  IF built
           THEN LET c == callDirectGenerate(u, inferTier(u.npc),
                                            ~batches[b].aborted)
                IN  step(b, k, c.unit, c.state)
           ELSE step(b, k,
                     settle(u, Fulfilled(catchOutcome(u.npc,
                                   Err("Error",
                                       Msg("Character not found at index"),
                                       FALSE),
                                   now - u.startTime))),
                     rateLimitState)

\* fetch settles with resp; only a request whose signal is not aborted can.
FetchResponds(b, k, resp) ==
    /\ b \in 1..Len(batches) /\ k \in 1..Len(batches[b].units)
    /\ batches[b].units[k].pc = "fetch"
    /\ ~batches[b].aborted
    /\ LET u == batches[b].units[k]
           r == dgOnResponse(u.dg, u.provided, rateLimitState, resp, now)
       IN  step(b, k, afterDG(u, r, now, ~batches[b].aborted), r.state)

\* response.json() settles: parsed or rejected on a malformed body.
BodyRead(b, k, parsed) ==
    /\ b \in 1..Len(batches) /\ k \in 1..Len(batches[b].units)
    /\ batches[b].units[k].pc = "body"
    /\ ~batches[b].aborted
    /\ LET u == batches[b].units[k]
           r == dgOnBody(u.dg, u.provided, rateLimitState, parsed, now)
       IN  step(b, k, afterDG(u, r, now, ~batches[b].aborted), r.state)

\* fetch or response.json() rejects with AbortError: the signal is aborted.
FetchAborted(b, k) ==
    /\ b \in 1..Len(batches) /\ k \in 1..Len(batches[b].units)
    /\ batches[b].units[k].pc \in {"fetch", "body"}
    /\ batches[b].aborted
    /\ LET u == batches[b].units[k]
           r == dgOnAbort(u.dg, u.provided, rateLimitState, now)
       IN  step(b, k, afterDG(u, r, now, ~batches[b].aborted), r.state)

Next ==
    \/ \E npcs \in NpcInputs, situation \in Situations : Spawn(npcs, situation)
    \/ AbortCurrentSpawn
    \/ Tick
    \/ \E b \in 1..MaxBatches, k \in 1..MaxTargets : ResolveDone(b, k)
    \/ \E b \in 1..MaxBatches, k \in 1..MaxTargets, built \in BOOLEAN :
          BuildDone(b, k, built)
    \/ \E b \in 1..MaxBatches, k \in 1..MaxTargets, resp \in Responses :
          FetchResponds(b, k, resp)
    \/ \E b \in 1..MaxBatches, k \in 1..MaxTargets, parsed \in BOOLEAN :
          BodyRead(b, k, parsed)
    \/ \E b \in 1..MaxBatches, k \in 1..MaxTargets : FetchAborted(b, k)

Spec == Init /\ [][Next]_vars

\* Every await of a unit settles in the end: the resolver and the prompt
\* builder answer, and a network call resolves, rejects or is aborted.
UnitStep(b, k) ==
    \/ ResolveDone(b, k)
    \/ \E built \in BOOLEAN : BuildDone(b, k, built)
    \/ \E resp \in Responses : FetchResponds(b, k, resp)
    \/ \E parsed \in BOOLEAN : BodyRead(b, k, parsed)
    \/ FetchAborted(b, k)

\* While some await is pending, one of the pending awaits settles.
Fairness ==
    WF_vars(\E b \in 1..MaxBatches : \E k \in 1..MaxTargets : UnitStep(b, k))

\* The program with the clock standing still: the passing of time settles
\* no await, it only changes which answer a rate-limit check gives, and
\* both answers occur without it.
NextLive ==
    \/ \E npcs \in NpcInputs, situation \in Situations : Spawn(npcs, situation)
    \/ AbortCurrentSpawn
    \/ \E b \in 1..MaxBatches, k \in 1..MaxTargets : UnitStep(b, k)

SpecLive == Init /\ [][NextLive]_vars /\ Fairness

\* The same program with a fallback chain of three profiles for "standard".
InitABC ==
    /\ now = 0
    /\ rateLimitState = [p \in ProfileKeys |-> NoRecord]
    /\ tierProfiles = [standard |-> <<"A", "B", "C">>, minor |-> <<>>]
    /\ currentAbortController = 0
    /\ batches = <<>>
    /\ stopLog = NoStop
    /\ lastCall = NoCall(NoStreak)
    /\ InitOtherModules

SpecABC == InitABC /\ [][Next]_vars

\* ------------------------------------------- the rate limiter, called directly

\* The profile names the calls are made with.
LimiterNames == {"A", "B"}

\* The retryAfterHeader arguments of recordRateLimit.
RetryAfterArgs ==
    {Null, NaN, Num(0), Num(0 - 1), Num(5), Num(400),
     Str(<<"1", "0">>), Str(<<"s", "o", "o", "n">>)}

\* The Retry-After header texts of a 429 response ("" is no header: the
\* router passes null for an absent or empty header).
RetryAfterTexts == {<<>>, <<"1", "0">>, <<"W", "e", "d">>}

\* The consecutive errors on record, over all the names.
errorsOnRecord(rl) ==
    rl["A"].consecutiveErrors + rl["B"].consecutiveErrors

\* A step that is a call on profile p; the streak of p becomes w.
called(op, p, arg, header, isLimited, retryIn, w) ==
    lastCall' = [op |-> op, profile |-> p, arg |-> arg, header |-> header,
                 was |-> rateLimitState[p], isLimited |-> isLimited,
                 retryIn |-> retryIn, results |-> <<>>, npcs |-> <<>>,
                 ret |-> Null,
                 streak |-> [lastCall.streak EXCEPT ![p] = w]]

limiterFrame ==
    /\ stopLog' = NoStop
    /\ UNCHANGED <<now, tierProfiles, otherModules, currentAbortController, batches>>

\* checkRateLimit(p)
CheckRateLimit(p) ==
    LET r == checkRateLimit(rateLimitState, p, now)
    IN  /\ rateLimitState' = r.state
        /\ called("checkRateLimit", p, Null, Null, r.isLimited, r.retryIn,
                  lastCall.streak[p])
        /\ limiterFrame

\* recordSuccess(p)
RecordSuccess(p) ==
    /\ rateLimitState' = recordSuccess(rateLimitState, p)
    /\ called("recordSuccess", p, Null, Null, FALSE, 0, 0)
    /\ limiterFrame

\* recordRateLimit(p, retryAfter)
RecordRateLimit(p, retryAfter) ==
    /\ errorsOnRecord(rateLimitState) < MaxErrors
    /\ LET r == recordRateLimit(rateLimitState, p, retryAfter, now)
       IN  /\ rateLimitState' = r.state
           /\ called("recordRateLimit", p, retryAfter, Null, TRUE, r.retryIn,
                     IF retryAfter = Null THEN r.retryIn
                     ELSE lastCall.streak[p])
    /\ limiterFrame

\* A request to profile p is answered 429 with the Retry-After text: the
\* part of singleProfileGenerate that records the rate limit.
Receive429(p, text) ==
    /\ errorsOnRecord(rateLimitState) < MaxErrors
    /\ LET resp == [kind |-> "http", status |-> 429, retryAfter |-> text]
           r == spgResponse(rateLimitState, Profile(p), resp, now)
           passed == IF text = <<>> THEN Null ELSE parseInt(text)
       IN  /\ rateLimitState' = r.state
           /\ called("recordRateLimit", p, passed, Str(text), TRUE,
                     r.state[p].nextAttemptTime - now,
                     IF passed = Null THEN r.state[p].nextAttemptTime - now
                     ELSE lastCall.streak[p])
    /\ limiterFrame

\* clearRateLimit(p)
ClearRateLimit(p) ==
    /\ rateLimitState' = clearRateLimit(rateLimitState, p)
    /\ called("clearRateLimit", p, Null, Null, FALSE, 0, 0)
    /\ limiterFrame

\* clearAllRateLimits()
ClearAllRateLimits ==
    /\ rateLimitState' = clearAllRateLimits(rateLimitState)
    /\ lastCall' = [NoCall(NoStreak) EXCEPT !.op = "clearAllRateLimits"]
    /\ limiterFrame

NextRL ==
    \/ \E p \in LimiterNames : CheckRateLimit(p)
    \/ \E p \in LimiterNames : RecordSuccess(p)
    \/ \E p \in LimiterNames, h \in RetryAfterArgs : RecordRateLimit(p, h)
    \/ \E p \in LimiterNames, text \in RetryAfterTexts : Receive429(p, text)
    \/ \E p \in LimiterNames : ClearRateLimit(p)
    \/ ClearAllRateLimits
    \/ Tick

SpecRL == Init /\ [][NextRL]_vars

\* ------------------------------------- one profile over several windows

\* Time passes, far enough for windows without Retry-After to end.
Elapse ==
    /\ now < MaxElapse * BASE_DELAY_MS
    /\ now' = now + BASE_DELAY_MS
    /\ stopLog' = NoStop
    /\ lastCall' = NoCall(lastCall.streak)
    /\ UNCHANGED <<rateLimitState, tierProfiles, otherModules, currentAbortController,
                   batches>>

NextWindow ==
    \/ CheckRateLimit("A")
    \/ RecordSuccess("A")
    \/ RecordRateLimit("A", Null)
    \/ ClearRateLimit("A")
    \/ Elapse

SpecWindow == Init /\ [][NextWindow]_vars

\* ------------------------------------------ the chain resolution, called alone

\* The names a tier can be configured with: names of profiles, a name only
\* the fuzzy search finds ("a"), a name of no profile and the empty string.
ConfiguredNames == {"A", "B", "a", "ghost", ""}

\* Settings: "standard" holds any list of up to MaxChain names, "minor" is
\* configured empty, the other tiers have no entry.
RouterConfigs ==
    {[standard |-> c, minor |-> <<>>] :
        c \in UNION {[1..n -> ConfiguredNames] : n \in 0..MaxChain}}

TiersAsked == {"standard", "minor", "major"}

InitRouter ==
    /\ now = 0
    /\ rateLimitState = [p \in ProfileKeys |-> NoRecord]
    /\ tierProfiles \in RouterConfigs
    /\ currentAbortController = 0
    /\ batches = <<>>
    /\ stopLog = NoStop
    /\ lastCall = NoCall(NoStreak)
    /\ InitOtherModules

\* getProfilesForTier(tier)
GetProfilesForTier(tier) ==
    /\ lastCall' = [NoCall(lastCall.streak) EXCEPT
                       !.op = "getProfilesForTier",
                       !.arg = tier,
                       !.ret = getProfilesForTier(tierProfiles, tier)]
    /\ limiterFrame
    /\ UNCHANGED rateLimitState

\* getNextAvailableProfile(tier)
GetNextAvailableProfile(tier) ==
    LET r == getNextAvailableProfile(tierProfiles, rateLimitState, tier, now)
    IN  /\ rateLimitState' = r.state
        /\ lastCall' = [NoCall(lastCall.streak) EXCEPT
                           !.op = "getNextAvailableProfile",
                           !.arg = tier,
                           !.ret = [profile |-> r.profile,
                                    skipped |-> r.skipped]]
        /\ limiterFrame

\* A request to p, which has no error on record, is answered 429 with
\* "Retry-After: 5".
Limit(p) ==
    /\ rateLimitState[p].consecutiveErrors = 0
    /\ Receive429(p, <<"5">>)

NextRouter ==
    \/ \E tier \in TiersAsked : GetProfilesForTier(tier)
    \/ \E tier \in TiersAsked : GetNextAvailableProfile(tier)
    \/ \E p \in LimiterNames : Limit(p)
    \/ Tick

SpecRouter == InitRouter /\ [][NextRouter]_vars

\* ------------------------------------------- directGenerate, called alone

\* The profile argument of directGenerate: none, or a connection profile.
ProvidedProfiles == {Null} \cup {Profile(n) : n \in ConnectionProfiles}

\* The chain of "standard" holds all three profiles or the first two.
InitDG ==
    /\ now = 0
    /\ rateLimitState = [p \in ProfileKeys |-> NoRecord]
    /\ tierProfiles \in {[standard |-> <<"A", "B", "C">>, minor |-> <<>>],
                         [standard |-> <<"A", "B">>, minor |-> <<>>]}
    /\ currentAbortController = 0
    /\ batches = <<>>
    /\ stopLog = NoStop
    /\ lastCall = NoCall(NoStreak)
    /\ InitOtherModules

\* directGenerate(messages, provided, {tier: 'standard'}) is called, with no
\* signal, once the call before it has ended. The call is kept as the one
\* unit of a batch of its own, and its outcome as the result of the batch.
DirectGenerate(provided) ==
    /\ Len(batches) < MaxBatches
    /\ \A b \in 1..Len(batches) : batches[b].state = "returned"
    /\ LET u0 == [NewUnit("Alice") EXCEPT !.pc = "building",
                                         !.startTime = now,
                                         !.tier = "standard",
                                         !.provided = provided]
           r == directGenerate(tierProfiles, rateLimitState, provided,
                               "standard", TRUE, now)
           batch == [npcs |-> <<"Alice">>,
                     situation |-> "The door bursts open",
                     state |-> "running", aborted |-> FALSE,
                     units |-> <<afterDG(u0, r, now, TRUE)>>,
                     result |-> emptyResult("pending")]
       IN  /\ batches' = complete(Append(batches, batch), Len(batches) + 1)
           /\ rateLimitState' = r.state
    /\ lastCall' = [NoCall(NoStreak) EXCEPT !.op = "directGenerate",
                                            !.arg = provided]
    /\ stopLog' = NoStop
    /\ UNCHANGED <<now, tierProfiles, otherModules, currentAbortController>>

NextDG ==
    \/ \E provided \in ProvidedProfiles : DirectGenerate(provided)
    \/ \E resp \in Responses : FetchResponds(Len(batches), 1, resp)
    \/ \E parsed \in BOOLEAN : BodyRead(Len(batches), 1, parsed)

SpecDG == InitDG /\ [][NextDG]_vars

\* ------------------------------------------ aggregateResults called alone

\* Latencies of the outcomes handed in, in ms.
Latencies == {100, 101}

\* What the promise of one target can have settled to: an outcome of
\* executeNPCRequest (success, failure, 'Aborted') or a rejection.
SettlementsOf(npcName) ==
    {Fulfilled(successOutcome(npcName, l, "standard")) : l \in Latencies}
        \cup {Fulfilled(catchOutcome(npcName,
                  Err("Error", HttpMsg("A", 500), FALSE), 3)),
              Fulfilled(catchOutcome(npcName, AbortError, 7)),
              Rejected(Err("Error", Msg("Character name is required"),
                           FALSE))}

AggregateNames == {"Alice", ""}

\* The (results, npcs) pairs of length n: results[k] is a settlement of the
\* promise made for npcs[k].
AggregateInputs(n) ==
    UNION {{[results |-> rs, npcs |-> ns] :
               rs \in {f \in [1..n -> UNION {SettlementsOf(x) :
                                                x \in AggregateNames}] :
                          \A k \in 1..n :
                              f[k] \in SettlementsOf(ns[k])}} :
           ns \in [1..n -> AggregateNames]}

\* aggregateResults(results, npcs). The function reads and writes no module
\* state, so one call per behaviour stands for every call.
Aggregate(results, npcs) ==
    /\ lastCall.op = "none"
    /\ lastCall' = [NoCall(NoStreak) EXCEPT
                       !.op = "aggregateResults",
                       !.results = results,
                       !.npcs = npcs,
                       !.ret = aggregateResults(results, npcs)]
    /\ limiterFrame
    /\ UNCHANGED rateLimitState

NextAgg ==
    \E n \in 0..MaxOutcomes : \E in \in AggregateInputs(n) :
        Aggregate(in.results, in.npcs)

SpecAgg == Init /\ [][NextAgg]_vars

\* ================================================================== ui-lock

MaxLockCalls == 3

\* .hasClass(LOCK_CLASS) of a jQuery set of at most one element.
hasClass(el) == el.present /\ el.locked

\* isInputLocked()
isInputLocked(pg) == hasClass(pg.button) \/ hasClass(pg.textarea)

\* .prop('disabled', v) and .addClass / .removeClass(LOCK_CLASS): nothing
\* happens to an empty set.
setLocked(el, v) ==
    IF el.present THEN [el EXCEPT !.disabled = v, !.locked = v] ELSE el

\* lockInput(): the page after the call and the value returned.
lockInput(pg) ==
    IF isInputLocked(pg)
    THEN [page |-> pg, ret |-> FALSE]
    ELSE IF ~pg.button.present /\ ~pg.textarea.present
    THEN [page |-> pg, ret |-> FALSE]
    ELSE [page |-> [button |-> setLocked(pg.button, TRUE),
                    textarea |-> setLocked(pg.textarea, TRUE)],
          ret |-> TRUE]

unlockInput_keepsLock(pg) ==
    [page |-> pg, ret |-> isInputLocked(pg)]

\* unlockInput(): the page after the call and the value returned.
unlockInput(pg) ==
    IF ~isInputLocked(pg)
    THEN [page |-> pg, ret |-> FALSE]
    ELSE [page |-> [button |-> setLocked(pg.button, FALSE),
                    textarea |-> setLocked(pg.textarea, FALSE)],
          ret |-> TRUE]

\* What the function passed to withInputLock does: it throws before it
\* returns, or it returns a promise that fulfils or rejects later.
FnOutcomes ==
    {[status |-> "fulfilled", value |-> "done"],
     [status |-> "rejected", value |-> "Error: generation failed"]}

tryFinally_swallows(out) == [status |-> "fulfilled", value |-> Null]

\* try { return await fn(); } finally { unlockInput(); }: the finally block
\* neither returns nor throws, so the promise of withInputLock settles as
\* fn's did.
tryFinally(out) == out

\* withInputLock(fn) up to its await; a function that throws at once takes
\* the finally block in the same step.
WithInputLock(throws) ==
    /\ Len(lockCalls) < MaxLockCalls
    /\ LET locked == lockInput(page).page
           out == [status |-> "rejected", value |-> "Error: generation failed"]
       IN  IF throws
           THEN /\ page' = unlockInput(locked).page
                /\ lockCalls' = Append(lockCalls,
                                    [pc |-> "settled", sync |-> TRUE,
                                     fn |-> out,
                                     settled |-> tryFinally(out)])
           ELSE /\ page' = locked
                /\ lockCalls' = Append(lockCalls,
                                    [pc |-> "running", sync |-> FALSE,
                                     fn |-> Null, settled |-> Null])
    /\ UNCHANGED <<coreVars, toolVars, sessionVars, promoterVars>>

\* The promise of fn() settles: the finally block runs and the promise of
\* withInputLock settles the same way.
FnSettles(i, out) ==
    /\ i \in 1..Len(lockCalls)
    /\ lockCalls[i].pc = "running"
    /\ page' = unlockInput(page).page
    /\ lockCalls' = [lockCalls EXCEPT ![i] = [@ EXCEPT !.pc = "settled",
                                                       !.fn = out,
                                                       !.settled =
                                                           tryFinally(out)]]
    /\ UNCHANGED <<coreVars, toolVars, sessionVars, promoterVars>>

\* The page may lack the send button, the textarea or both.
InitLock ==
    /\ now = 0
    /\ rateLimitState = [p \in ProfileKeys |-> NoRecord]
    /\ tierProfiles \in TierConfigs
    /\ currentAbortController = 0
    /\ batches = <<>>
    /\ stopLog = NoStop
    /\ lastCall = NoCall(NoStreak)
    /\ page \in {[button |-> Element(b), textarea |-> Element(t)] :
                    b \in BOOLEAN, t \in BOOLEAN}
    /\ lockCalls = <<>>
    /\ InitToolsModule
    /\ InitSessionModule
    /\ InitPromoterModule

NextLock ==
    \/ \E throws \in BOOLEAN : WithInputLock(throws)
    \/ \E i \in 1..MaxLockCalls, out \in FnOutcomes : FnSettles(i, out)

SpecLock == InitLock /\ [][NextLock]_vars

\* ==================================================================== tools

MaxToolCalls == 5

\* The loop of registerTools over TOOL_DEFINITIONS from entry i on: a tool
\* whose shouldRegister() is false is skipped, a throw of
\* registerFunctionTool is caught and the tool not counted.
RECURSIVE registerLoop(_, _, _, _, _)
registerLoop(i, host, registered, enabled, throwing) ==
    IF i > Len(TOOL_NAMES)
    THEN [host |-> host, registered |-> registered]
    ELSE IF ~enabled \/ TOOL_NAMES[i] \in throwing
    THEN registerLoop(i + 1, host, registered, enabled, throwing)
    ELSE registerLoop(i + 1, host \cup {TOOL_NAMES[i]},
                      registered \cup {TOOL_NAMES[i]}, enabled, throwing)

registerTools_unguarded(flag, host, hostCan, enabled, throwing) ==
    LET done == registerLoop(1, host, {}, enabled, throwing)
    IN  IF ~hostCan
        THEN [flag |-> flag, host |-> host, registered |-> {}, ret |-> FALSE]
        ELSE [flag |-> done.registered # {}, host |-> done.host,
              registered |-> done.registered,
              ret |-> done.registered # {}]

\* registerTools(): the flag and SillyTavern's tools after the call, the
\* tools the call registered and the value returned. hostCan: the context
\* has registerFunctionTool.
registerTools(flag, host, hostCan, enabled, throwing) ==
    LET done == registerLoop(1, host, {}, enabled, throwing)
    IN  IF flag
        THEN [flag |-> flag, host |-> host, registered |-> {}, ret |-> TRUE]
        ELSE IF ~hostCan
        THEN [flag |-> flag, host |-> host, registered |-> {}, ret |-> FALSE]
        ELSE [flag |-> done.registered # {}, host |-> done.host,
              registered |-> done.registered,
              ret |-> done.registered # {}]

\* The loop of unregisterTools over REGISTERED_TOOL_NAMES: a throw of
\* unregisterFunctionTool is caught and leaves the tool in place.
unregisterLoop(host, throwing) == host \ (ToolNameSet \ throwing)

\* unregisterTools(). hostCan: the context has unregisterFunctionTool.
unregisterTools(flag, host, hostCan, throwing) ==
    IF ~flag
    THEN [flag |-> flag, host |-> host]
    ELSE IF ~hostCan
    THEN [flag |-> flag, host |-> host]
    ELSE [flag |-> FALSE, host |-> unregisterLoop(host, throwing)]

\* The calls of registerFunctionTool or unregisterFunctionTool that throw.
Throwing ==
    {{}, {"query_npc_knowledge"}, {"spawn_npc_responses", "resolve_action"},
     ToolNameSet}

RegisterTools(hostCan, enabled, throwing) ==
    /\ toolLog.calls < MaxToolCalls
    /\ LET r == registerTools(toolsRegistered, toolManager, hostCan, enabled,
                              throwing)
       IN  /\ toolsRegistered' = r.flag
           /\ toolManager' = r.host
           /\ toolLog' = [op |-> "registerTools", was |-> toolsRegistered,
                          ret |-> r.ret, registered |-> r.registered,
                          hostCan |-> hostCan,
                          since |-> [n \in ToolNameSet |->
                                        IF n \in r.registered
                                        THEN toolLog.since[n] + 1
                                        ELSE toolLog.since[n]],
                          calls |-> toolLog.calls + 1]
    /\ UNCHANGED <<coreVars, lockVars, sessionVars, promoterVars>>

UnregisterTools(hostCan, throwing) ==
    /\ toolLog.calls < MaxToolCalls
    /\ LET r == unregisterTools(toolsRegistered, toolManager, hostCan,
                                throwing)
       IN  /\ toolsRegistered' = r.flag
           /\ toolManager' = r.host
           /\ toolLog' = [op |-> "unregisterTools", was |-> toolsRegistered,
                          ret |-> FALSE, registered |-> {},
                          hostCan |-> hostCan,
                          since |-> [n \in ToolNameSet |-> 0],
                          calls |-> toolLog.calls + 1]
    /\ UNCHANGED <<coreVars, lockVars, sessionVars, promoterVars>>

NextTools ==
    \/ \E hostCan \in BOOLEAN, enabled \in BOOLEAN, throwing \in Throwing :
          RegisterTools(hostCan, enabled, throwing)
    \/ \E hostCan \in BOOLEAN, throwing \in Throwing :
          UnregisterTools(hostCan, throwing)

SpecTools == Init /\ [][NextTools]_vars

\* ======================================================= character-resolver

MAX_RESPONSE_HISTORY == 10

MaxAdds == 12

\* Names a caller may pass; "" stands for every falsy or non-string name.
SessionNames == {"Bob", "BOB", "Eve", ""}

\* String.prototype.toLowerCase on the names above.
toLowerCase(name) ==
    IF name \in {"Bob", "BOB"} THEN "bob"
    ELSE IF name = "Eve" THEN "eve"
    ELSE name

\* getSessionCharacter(name)
getSessionCharacter(chars, name) ==
    IF name = "" THEN Null
    ELSE IF toLowerCase(name) \in DOMAIN chars THEN chars[toLowerCase(name)]
    ELSE Null

\* A character as setSessionCharacter(name, {}) stores it.
StubCharacter(name, t) ==
    [name |-> name, source |-> "stub", spawnCount |-> 0,
     generatedResponses |-> <<>>, hasMetadata |-> FALSE,
     lastInteraction |-> t]

slice_fromStart(list, n) ==
    SubSeq(list, 1, IF Len(list) < -n THEN Len(list) ELSE -n)

\* Array.prototype.slice(n) for n < 0: the last -n elements, all of them
\* when the array is shorter.
slice(list, n) ==
    SubSeq(list, (IF Len(list) + n < 0 THEN 0 ELSE Len(list) + n) + 1,
           Len(list))

\* saveSessionToStorage(): what sessionStorage holds afterwards; a throw of
\* setItem is caught and leaves the item as it was.
saveSessionToStorage(chars, stored, saved) ==
    IF saved THEN chars ELSE stored

\* addGeneratedResponse(name, response): the map afterwards.
addGeneratedResponse(chars, name, response, t) ==
    LET character == getSessionCharacter(chars, name)
        pushed == Append(character.generatedResponses, response)
        trimmed == IF Len(pushed) > MAX_RESPONSE_HISTORY
                   THEN slice(pushed, -MAX_RESPONSE_HISTORY)
                   ELSE pushed
    IN  IF character = Null
        THEN chars
        ELSE [chars EXCEPT ![toLowerCase(name)] =
                 [character EXCEPT !.generatedResponses = trimmed,
                                   !.lastInteraction = t]]

ResponseTexts == {"a", "b"}

RECURSIVE sumLen(_, _)
sumLen(log, keys) ==
    IF keys = {} THEN 0
    ELSE LET k == CHOOSE x \in keys : TRUE
         IN  Len(log[k]) + sumLen(log, keys \ {k})

AddGeneratedResponse(name, response, saved) ==
    /\ sumLen(sessionLog, SessionKeys) < MaxAdds
    /\ LET found == getSessionCharacter(sessionCharacters, name) # Null
       IN  /\ sessionCharacters' =
                  addGeneratedResponse(sessionCharacters, name, response, now)
           /\ sessionStorage' =
                  IF found
                  THEN saveSessionToStorage(sessionCharacters',
                                            sessionStorage, saved)
                  ELSE sessionStorage
           /\ sessionLog' =
                  IF found
                  THEN [sessionLog EXCEPT ![toLowerCase(name)] =
                           Append(@, response)]
                  ELSE sessionLog
    /\ UNCHANGED <<coreVars, lockVars, toolVars, promoterVars>>

\* A session with the one character "Bob", just created.
InitResponses ==
    /\ now = 0
    /\ rateLimitState = [p \in ProfileKeys |-> NoRecord]
    /\ tierProfiles \in TierConfigs
    /\ currentAbortController = 0
    /\ batches = <<>>
    /\ stopLog = NoStop
    /\ lastCall = NoCall(NoStreak)
    /\ InitLockModule
    /\ InitToolsModule
    /\ InitPromoterModule
    /\ sessionCharacters = [k \in SessionKeys |->
                               IF k = "bob" THEN StubCharacter("Bob", 0)
                               ELSE Null]
    /\ sessionStorage = Null
    /\ sessionLog = [k \in SessionKeys |-> <<>>]

NextResponses ==
    \E name \in SessionNames, response \in ResponseTexts, saved \in BOOLEAN :
        AddGeneratedResponse(name, response, saved)

SpecResponses == InitResponses /\ [][NextResponses]_vars

\* ======================================================= character-promoter

SESSION_TO_LOREBOOK_SPAWNS == 3

SESSION_TO_LOREBOOK_LENGTH == 500

LOREBOOK_TO_CARD_SPAWNS == 10

MaxSpawnCount == 3

MaxPromotions == 2

\* generatedResponses.join('')
RECURSIVE join(_)
join(list) == IF list = <<>> THEN "" ELSE Head(list) \o join(Tail(list))

\* calculateResponseLength(character)
calculateResponseLength(character) == Len(join(character.generatedResponses))

\* checkPromotionThreshold(name)
checkPromotionThreshold(chars, name) ==
    LET character == getSessionCharacter(chars, name)
    IN  IF character = Null THEN FALSE
        ELSE IF character.source \in {"lorebook", "card"} THEN FALSE
        ELSE \/ character.spawnCount >= SESSION_TO_LOREBOOK_SPAWNS
             \/ calculateResponseLength(character) > SESSION_TO_LOREBOOK_LENGTH

\* getPromotionStatus(name), without the requirements detail.
getPromotionStatus(chars, name) ==
    LET character == getSessionCharacter(chars, name)
        currentLevel == IF character.source = "lorebook" THEN 1
                        ELSE IF character.source = "card" THEN 2 ELSE 0
        totalResponseLength == calculateResponseLength(character)
        meetsThreshold ==
            IF currentLevel = 0
            THEN \/ character.spawnCount >= SESSION_TO_LOREBOOK_SPAWNS
                 \/ totalResponseLength > SESSION_TO_LOREBOOK_LENGTH
            ELSE IF currentLevel = 1
            THEN /\ character.spawnCount >= LOREBOOK_TO_CARD_SPAWNS
                 /\ character.hasMetadata
            ELSE FALSE
    IN  IF character = Null THEN Null
        ELSE [name |-> character.name,
              currentLevel |-> currentLevel,
              spawnCount |-> character.spawnCount,
              totalResponseLength |-> totalResponseLength,
              meetsThreshold |-> meetsThreshold,
              nextLevel |-> IF ~meetsThreshold THEN "null"
                            ELSE IF currentLevel = 0 THEN "lorebook"
                            ELSE "card"]

\* The keys of sessionCharacters in the order of insertion.
SessionKeyOrder == <<"bob", "eve">>

\* getPromotableCharacters(): the names, in the order of the map.
getPromotableCharacters(chars) ==
    LET ready(k) ==
            /\ chars[k] # Null
            /\ chars[k].source \notin {"lorebook", "card"}
            /\ checkPromotionThreshold(chars, chars[k].name)
        kept == SelectSeq(SessionKeyOrder, ready)
    IN  [i \in 1..Len(kept) |-> chars[kept[i]].name]

\* The entry key promoteToLorebook builds for a name.
entryKey(name) == "ensemble_character:" \o toLowerCase(name)

\* What the context offers for creating a lorebook entry.
LorebookApis == {"createWorldInfoEntry", "executeSlashCommands", "none"}

\* incrementSpawnCount(name)
IncrementSpawnCount(name, saved) ==
    LET character == getSessionCharacter(sessionCharacters, name)
    IN  /\ character # Null
        /\ character.spawnCount < MaxSpawnCount
        /\ sessionCharacters' =
               [sessionCharacters EXCEPT ![toLowerCase(name)] =
                   [character EXCEPT !.spawnCount = @ + 1,
                                     !.lastInteraction = now]]
        /\ sessionStorage' = saveSessionToStorage(sessionCharacters',
                                                  sessionStorage, saved)
        /\ UNCHANGED <<coreVars, lockVars, toolVars, sessionLog, promoterVars>>

\* promoteToLorebook(name) up to its await, or to its return when the
\* character is unknown or the context offers no way to create an entry.
PromoteToLorebook(name, api) ==
    /\ Len(promotions) < MaxPromotions
    /\ LET character == getSessionCharacter(sessionCharacters, name)
       IN  promotions' = Append(promotions,
               IF character = Null \/ api = "none"
               THEN [name |-> name, api |-> api, pc |-> "returned",
                     ret |-> FALSE]
               ELSE [name |-> name, api |-> api, pc |-> "await",
                     ret |-> FALSE])
    /\ UNCHANGED <<coreVars, lockVars, toolVars, sessionVars, lorebook>>

\* The awaited createWorldInfoEntry or executeSlashCommands settles: the
\* entry exists and the call returns true, or the rejection is caught and
\* the call returns false.
EntryCreated(i, created) ==
    /\ i \in 1..Len(promotions)
    /\ promotions[i].pc = "await"
    /\ promotions' = [promotions EXCEPT ![i] = [@ EXCEPT !.pc = "returned",
                                                         !.ret = created]]
    /\ lorebook' = IF created
                   THEN [lorebook EXCEPT ![entryKey(promotions[i].name)] =
                            @ + 1]
                   ELSE lorebook
    /\ UNCHANGED <<coreVars, lockVars, toolVars, sessionVars>>

\* A response longer than SESSION_TO_LOREBOOK_LENGTH characters.
RECURSIVE repeat(_, _)
repeat(text, n) == IF n = 0 THEN "" ELSE text \o repeat(text, n - 1)

LongResponse == repeat("0123456789", 51)

\* A session with "Bob", a stub just created, and "Eve", a character that
\* came from the lorebook.
InitPromote ==
    /\ now = 0
    /\ rateLimitState = [p \in ProfileKeys |-> NoRecord]
    /\ tierProfiles \in TierConfigs
    /\ currentAbortController = 0
    /\ batches = <<>>
    /\ stopLog = NoStop
    /\ lastCall = NoCall(NoStreak)
    /\ InitLockModule
    /\ InitToolsModule
    /\ InitPromoterModule
    /\ sessionCharacters =
           [k \in SessionKeys |->
               IF k = "bob" THEN StubCharacter("Bob", 0)
               ELSE [StubCharacter("Eve", 0) EXCEPT !.source = "lorebook"]]
    /\ sessionStorage = Null
    /\ sessionLog = [k \in SessionKeys |-> <<>>]

NextPromote ==
    \/ \E name \in SessionNames : IncrementSpawnCount(name, TRUE)
    \/ /\ sumLen(sessionLog, SessionKeys) < 1
       /\ AddGeneratedResponse("Bob", LongResponse, TRUE)
    \/ \E name \in SessionNames, api \in LorebookApis :
          PromoteToLorebook(name, api)
    \/ \E i \in 1..MaxPromotions, created \in BOOLEAN : EntryCreated(i, created)

SpecPromote == InitPromote /\ [][NextPromote]_vars

\* ================================================================= claims

\* C1: for every non-empty targets list and non-empty situation, the result
\* of spawnNPCResponses holds exactly one outcome per target: results is as
\* long as the targets list and results[i] is the outcome of targets[i],
\* also after a fallback chain was exhausted and after the batch was
\* cancelled or superseded.
C1_OneOutcomePerTarget ==
    \A b \in 1..Len(batches) :
        LET B == batches[b]
        IN  (B.state = "returned" /\ B.npcs # <<>> /\ B.situation # "") =>
                /\ Len(B.result.results) = Len(B.npcs)
                /\ \A i \in 1..Len(B.npcs) :
                      LET r == B.result.results[i]
                          s == B.units[i].settled
                      IN  /\ r.npc = IF B.npcs[i] # "" THEN B.npcs[i]
                                     ELSE NpcLabels[i]
                          /\ s.status = "fulfilled" => r = s.value
                          /\ s.status = "rejected" =>
                                ~r.success /\ r.error = s.reason.message

\* A cancelled batch of two targets has returned; the first target had
\* exhausted its fallback chain.
C1_Witness ==
    \E b \in 1..Len(batches) :
        /\ batches[b].state = "returned"
        /\ batches[b].aborted
        /\ Len(batches[b].npcs) = 2
        /\ Len(batches[b].result.results) = 2
        /\ batches[b].result.results[1].error.kind = "Exhausted"

\* C2: spawnNPCResponses never rejects for an operational failure. Whatever
\* the targets ran into (200, 429, another status, a transport error, an
\* abort, an exception of the resolver or of the prompt builder), the call
\* returns a result once every target is settled, and the result holds the
\* outcome of every sibling that produced one.
C2_SpawnNeverRejects ==
    \A b \in 1..Len(batches) :
        LET B == batches[b]
        IN  /\ B.state \in {"running", "returned"}
            /\ (\A k \in 1..Len(B.units) : B.units[k].pc = "settled") =>
                   B.state = "returned"
            /\ B.state = "returned" =>
                   \A k \in 1..Len(B.units) :
                       B.units[k].settled.status = "fulfilled" =>
                           /\ k <= Len(B.result.results)
                           /\ B.result.results[k] = B.units[k].settled.value

\* The resolver threw for the first target; the call returned, with the
\* successful response of the second target in its result.
C2_Witness ==
    \E b \in 1..Len(batches) :
        /\ batches[b].state = "returned"
        /\ Len(batches[b].units) = 2
        /\ batches[b].units[1].settled.status = "rejected"
        /\ batches[b].result.results[2].success

\* C3: a target whose network call is in flight when the token of its batch
\* is cancelled gets the outcome Cancelled (error "Aborted"), and is left
\* out of stats.total, stats.success and stats.failed.
C3_CancelledInFlightIsAborted ==
    [][\A b \in 1..Len(batches) : \A k \in 1..Len(batches[b].units) :
          LET u == batches[b].units[k]
              B2 == batches'[b]
          IN  (batches[b].aborted /\ u.wire /\ B2.units[k].pc = "settled") =>
                  /\ B2.units[k].settled.value.error = Msg("Aborted")
                  /\ B2.state = "returned" =>
                         B2.result.stats.total < Len(B2.result.results)
      ]_vars

\* C4: a target that completed before its batch was cancelled keeps its
\* outcome: no step changes a settled outcome, and when the batch returns
\* the outcome is in the result as it was produced and is counted in the
\* statistics.
C4_CompletedKeepRealResult ==
    [][\A b \in 1..Len(batches) : \A k \in 1..Len(batches[b].units) :
          LET u == batches[b].units[k]
              B2 == batches'[b]
              R == B2.result.results
          IN  (u.pc = "settled") =>
                  /\ B2.units[k].settled = u.settled
                  /\ (B2.state = "returned" /\ u.settled.status = "fulfilled") =>
                         /\ R[k] = u.settled.value
                         /\ B2.result.stats.success =
                                Cardinality({i \in 1..Len(R) : R[i].success})
                         /\ B2.result.stats.failed =
                                Cardinality({i \in 1..Len(R) :
                                    ~R[i].success /\ R[i].error # Msg("Aborted")})
                         /\ B2.result.stats.total =
                                B2.result.stats.success + B2.result.stats.failed
      ]_vars

\* A batch of two was cancelled after one target had answered and while the
\* other was in flight: the first is in the result as a success and counted.
C4_Witness ==
    \E b \in 1..Len(batches) :
        LET R == batches[b].result.results
        IN  /\ batches[b].state = "returned"
            /\ batches[b].aborted
            /\ Len(R) = 2
            /\ batches[b].result.stats.success = 1
            /\ \E i, j \in 1..2 :
                  /\ R[i].success
                  /\ R[j].error.kind = "Network"
                  /\ R[j].error.inner = AbortError.message

\* C5: a call of spawnNPCResponses made while an earlier batch is running
\* aborts the token of that batch in the same step, before any request of
\* the new batch is on the wire; the new batch starts at once, the old one
\* still running, and the token of the new batch is not aborted.
C5_SupersessionAbortsFirst ==
    [][/\ Len(batches') > Len(batches) =>
            LET n == Len(batches')
            IN  /\ \A p \in 1..Len(batches) :
                      batches[p].state = "running" =>
                          /\ batches'[p].aborted
                          /\ batches'[p].state = "running"
                          /\ batches'[p].units = batches[p].units
                /\ ~batches'[n].aborted
                /\ currentAbortController' = n
                /\ \A k \in 1..Len(batches'[n].units) :
                      ~batches'[n].units[k].wire
       /\ \A b \in 1..Len(batches') :
             (\E k \in 1..Len(batches'[b].units) : batches'[b].units[k].wire) =>
                 \A p \in 1..(b - 1) :
                     batches'[p].state = "running" => batches'[p].aborted
      ]_vars

\* The second batch has a request on the wire and a live token while the
\* first batch, superseded with its request in flight, is still running.
C5_Witness ==
    /\ Len(batches) = 2
    /\ batches[1].state = "running"
    /\ batches[1].aborted
    /\ batches[1].units[1].pc = "fetch"
    /\ batches[1].units[1].wire
    /\ batches[2].state = "running"
    /\ ~batches[2].aborted
    /\ batches[2].units[1].pc = "fetch"
    /\ batches[2].units[1].wire

\* C6: at most one batch is current: every batch but the one submitted last
\* has an aborted token or has returned; and the result a batch returned is
\* never changed afterwards, neither by a later spawnNPCResponses nor by
\* abortCurrentSpawn.
C6_OneCurrentBatch ==
    [][/\ \A b \in 1..(Len(batches') - 1) :
             batches'[b].aborted \/ batches'[b].state = "returned"
       /\ \A b \in 1..Len(batches) :
             batches[b].state = "returned" =>
                 /\ batches'[b].state = "returned"
                 /\ batches'[b].result = batches[b].result
      ]_vars

\* The first batch returned a successful response and was superseded only
\* afterwards: its stale token is aborted, its result is as it was returned.
C6_Witness ==
    /\ Len(batches) = 2
    /\ batches[1].state = "returned"
    /\ batches[1].aborted
    /\ Len(batches[1].result.results) = 1
    /\ batches[1].result.results[1].success
    /\ batches[1].result.stats.success = 1

\* C7: abortCurrentSpawn returns true only when a batch is running at the
\* time of the call; it returns false when idle, that is before any batch,
\* after the last batch has returned and after the running batch has
\* already been cancelled.
C7_StopTrueOnlyWhenRunning ==
    stopLog.called => (stopLog.returned => stopLog.wasActive)

\* C8: in directGenerate over a non-empty chain only rate-limit failures
\* move on to the next entry. A request on entry i ends in one of: the body
\* is awaited; the call returns; the entry was rate limited and the call
\* moves to a later entry or ends exhausted; or the failure was of another
\* kind, and then the call ends with that failure of entry i and no later
\* entry is touched.
C8_OnlyRateLimitAdvances ==
    [][\A b \in 1..Len(batches) : \A k \in 1..Len(batches[b].units) :
          LET u == batches[b].units[k]
              v == batches'[b].units[k]
              profiles == u.dg.profiles
          IN  (u.pc \in {"fetch", "body"} /\ u.dg.mode = "chain" /\ v # u) =>
                  \/ v.pc = "body" /\ v.dg = u.dg
                  \/ v.pc = "settled" /\ v.settled.value.success
                  \/ /\ v.pc = "fetch"
                     /\ v.dg.i > u.dg.i
                     /\ v.dg.lastError.isRateLimited
                     /\ rateLimitState'[profiles[u.dg.i]].isLimited
                  \/ /\ v.pc = "settled"
                     /\ v.settled.value.error.kind = "Exhausted"
                     /\ v.settled.value.error.last.kind
                            \in {"RateLimited", "RateLimit429"}
                     /\ rateLimitState'[profiles[u.dg.i]].isLimited
                  \/ /\ v.pc = "settled"
                     /\ v.settled.value.error.kind \in {"Http", "Network"}
                     /\ v.settled.value.error.profile = profiles[u.dg.i]
                     /\ rateLimitState' = rateLimitState
      ]_vars

\* A target failed with the 500 of the first entry of the chain <<A, B>>,
\* and B has never been looked at.
C8_Witness ==
    /\ tierProfiles.standard = <<"A", "B">>
    /\ ~rateLimitState["B"].present
    /\ \E b \in 1..Len(batches) : \E k \in 1..Len(batches[b].units) :
          LET u == batches[b].units[k]
          IN  /\ u.pc = "settled"
              /\ u.settled.status = "fulfilled"
              /\ u.settled.value.error = HttpMsg("A", 500)

\* The profile p is rate limited at time t.
limitedAt(rl, p, t) == rl[p].isLimited /\ t < rl[p].nextAttemptTime

\* C9: directGenerate never requests a chain entry that is rate limited at
\* that time, and visits each entry at most once, in increasing order: the
\* first request goes to the first entry that is not limited (to B for the
\* chain <<A, B, C>> with A limited), every later request goes to a later
\* entry, skipping exactly the limited ones, and the entries tried so far
\* are the chain up to the current entry.
C9_ChainVisitedInOrder ==
    [][\A b \in 1..Len(batches) : \A k \in 1..Len(batches[b].units) :
          LET u == batches[b].units[k]
              v == batches'[b].units[k]
              profiles == v.dg.profiles
          IN  /\ (/\ u.pc \in {"resolving", "building"}
                  /\ v.pc = "fetch"
                  /\ v.dg.mode = "chain") =>
                     /\ ~limitedAt(rateLimitState, profiles[v.dg.i], now)
                     /\ \A j \in 1..(v.dg.i - 1) :
                           limitedAt(rateLimitState, profiles[j], now)
                     /\ v.dg.tried = SubSeq(profiles, 1, v.dg.i)
              /\ (/\ u.pc \in {"fetch", "body"}
                  /\ u.dg.mode = "chain"
                  /\ v.pc \in {"fetch", "body"}) =>
                     /\ v.dg.i >= u.dg.i
                     /\ v.dg.tried = SubSeq(profiles, 1, v.dg.i)
                     /\ (v.pc = "fetch" /\ v # u) =>
                            /\ v.dg.i > u.dg.i
                            /\ ~limitedAt(rateLimitState, profiles[v.dg.i], now)
                            /\ \A j \in (u.dg.i + 1)..(v.dg.i - 1) :
                                  limitedAt(rateLimitState, profiles[j], now)
      ]_vars

\* Over the chain <<A, B, C>> a call found A limited, made no request to it
\* and has its first request on the wire to B; B and C are not limited.
C9_Witness ==
    /\ ~rateLimitState["B"].isLimited
    /\ ~rateLimitState["C"].isLimited
    /\ \E b \in 1..Len(batches) : \E k \in 1..Len(batches[b].units) :
          LET u == batches[b].units[k]
          IN  /\ u.pc = "fetch"
              /\ u.wire
              /\ u.dg.profiles = <<"A", "B", "C">>
              /\ u.dg.i = 2
              /\ u.dg.tried = <<"A", "B">>
              /\ u.dg.lastError # Null
              /\ u.dg.lastError.message = RateLimitedMsg("A")

\* The call of directGenerate over the chain <<A, B>> that got 429 from A
\* and awaits the answer of B.
C10_Case(b, k) ==
    LET u == batches[b].units[k]
    IN  /\ ~batches[b].aborted
        /\ u.pc = "fetch"
        /\ u.dg.mode = "chain"
        /\ u.dg.profiles = <<"A", "B">>
        /\ u.dg.i = 2
        /\ u.dg.lastError # Null
        /\ u.dg.lastError.message = Rate429Msg("A")

C10_Answer429 == [kind |-> "http", status |-> 429, retryAfter |-> <<>>]

\* C10 as claimed: when B answers 429 as well, directGenerate does not
\* throw; it returns a result that lists A and B and the last error.
C10_ExhaustionReturns ==
    \A b \in 1..Len(batches) : \A k \in 1..Len(batches[b].units) :
        C10_Case(b, k) =>
            LET u == batches[b].units[k]
                r == dgOnResponse(u.dg, u.provided, rateLimitState,
                                  C10_Answer429, now)
            IN  r.kind # "throw"

\* C10: when every entry of the chain <<A, B>> answers 429, directGenerate
\* throws an error that lists A and B as tried and carries the last
\* underlying error, the 429 of B; executeNPCRequest turns it into a failed
\* outcome with that message.
C10_ExhaustionThrowsListingAll ==
    \A b \in 1..Len(batches) : \A k \in 1..Len(batches[b].units) :
        LET u == batches[b].units[k]
        IN  /\ C10_Case(b, k) =>
                LET r == dgOnResponse(u.dg, u.provided, rateLimitState,
                                      C10_Answer429, now)
                    o == afterDG(u, r, now, TRUE)
                IN  /\ r.kind = "throw"
                    /\ r.error.message =
                           ExhaustedMsg(<<"A", "B">>, Rate429Msg("B"))
                    /\ o.pc = "settled"
                    /\ o.settled.status = "fulfilled"
                    /\ ~o.settled.value.success
                    /\ o.settled.value.error = r.error.message
            /\ (/\ u.pc = "settled"
                /\ u.settled.status = "fulfilled"
                /\ u.settled.value.error.kind = "Exhausted"
                /\ tierProfiles.standard = <<"A", "B">>) =>
                   /\ u.settled.value.error.tried = <<"A", "B">>
                   /\ u.settled.value.error.last.kind
                          \in {"RateLimited", "RateLimit429"}

\* A and B both answered 429 to one call: the target failed with the
\* exhaustion message that lists both and ends with the 429 of B.
C10_Witness ==
    \E b \in 1..Len(batches) : \E k \in 1..Len(batches[b].units) :
        LET u == batches[b].units[k]
        IN  /\ u.pc = "settled"
            /\ u.settled.status = "fulfilled"
            /\ u.settled.value.error =
                   ExhaustedMsg(<<"A", "B">>, Rate429Msg("B"))

\* C11: recordRateLimit(p) called again and again with no success in
\* between returns waits that never decrease, and no call of
\* recordRateLimit returns a wait above MAX_DELAY_MS.
C11_BackoffMonotoneCapped ==
    [][lastCall'.op = "recordRateLimit" =>
          /\ lastCall'.retryIn <= MAX_DELAY_MS
          /\ lastCall'.arg = Null =>
                 lastCall'.retryIn >= lastCall.streak[lastCall'.profile]
      ]_vars

\* The sixth consecutive recordRateLimit without Retry-After: the
\* exponential value 320000 is cut to MAX_DELAY_MS.
C11_Witness ==
    /\ lastCall.op = "recordRateLimit"
    /\ lastCall.arg = Null
    /\ lastCall.was.consecutiveErrors = 5
    /\ lastCall.retryIn = MAX_DELAY_MS

\* C12 as claimed: a call of checkRateLimit(p) never changes the state of
\* the rate limiter, whatever the record of p was.
C12_CheckNeverChangesState ==
    lastCall.op = "checkRateLimit" =>
        rateLimitState[lastCall.profile] = lastCall.was

\* C12: checkRateLimit(p) is idempotent. A call may create the default
\* record of p and may clear the limited flag of an expired window, and it
\* changes nothing else; a call that directly follows a call of
\* checkRateLimit(p) changes nothing at all.
C12_CheckIdempotent ==
    [][lastCall'.op = "checkRateLimit" =>
          LET p == lastCall'.profile
              was == rateLimitState[p]
              rec == rateLimitState'[p]
          IN  /\ rec.present
              /\ rec.consecutiveErrors = was.consecutiveErrors
              /\ rec.nextAttemptTime = was.nextAttemptTime
              /\ rec.isLimited = (was.isLimited /\ now < was.nextAttemptTime)
              /\ (lastCall.op = "checkRateLimit" /\ lastCall.profile = p) =>
                     /\ rateLimitState' = rateLimitState
                     /\ lastCall'.isLimited = lastCall.isLimited
                     /\ lastCall'.retryIn = lastCall.retryIn
      ]_vars

\* checkRateLimit was called on a record whose expired window an earlier
\* check had already cleared, and left it as it was.
C12_Witness ==
    /\ lastCall.op = "checkRateLimit"
    /\ lastCall.was = rateLimitState[lastCall.profile]
    /\ lastCall.was.present
    /\ ~lastCall.was.isLimited
    /\ lastCall.was.consecutiveErrors > 0
    /\ lastCall.was.nextAttemptTime > 0
    /\ now >= lastCall.was.nextAttemptTime

\* C13: recordSuccess(p) sets consecutiveErrors of p to 0 and isLimited to
\* false whatever the record was, and checkRateLimit(p) then reports that p
\* is not limited.
C13_SuccessResets ==
    lastCall.op = "recordSuccess" =>
        LET p == lastCall.profile
        IN  /\ rateLimitState[p].consecutiveErrors = 0
            /\ ~rateLimitState[p].isLimited
            /\ ~checkRateLimit(rateLimitState, p, now).isLimited

\* recordSuccess was called on a record that was limited, its window not
\* over, after two errors.
C13_Witness ==
    /\ lastCall.op = "recordSuccess"
    /\ lastCall.was.isLimited
    /\ now < lastCall.was.nextAttemptTime
    /\ lastCall.was.consecutiveErrors = 2

\* C14: recordRateLimit(p, null) adds exactly 1 to consecutiveErrors, sets
\* isLimited, returns retryIn = min(MAX_DELAY_MS, BASE_DELAY_MS * 2^n) for
\* the new count n, and sets nextAttemptTime to now + retryIn.
C14_ExponentialBackoff ==
    (lastCall.op = "recordRateLimit" /\ lastCall.arg = Null) =>
        LET rec == rateLimitState[lastCall.profile]
            n == rec.consecutiveErrors
            wait == IF BASE_DELAY_MS * (2 ^ n) <= MAX_DELAY_MS
                    THEN BASE_DELAY_MS * (2 ^ n) ELSE MAX_DELAY_MS
        IN  /\ n = lastCall.was.consecutiveErrors + 1
            /\ rec.isLimited
            /\ lastCall.retryIn = wait
            /\ rec.nextAttemptTime = now + wait

\* The third consecutive error, recorded at a time after 0: the wait is
\* 5000 * 2^3.
C14_Witness ==
    /\ lastCall.op = "recordRateLimit"
    /\ lastCall.arg = Null
    /\ lastCall.was.consecutiveErrors = 2
    /\ lastCall.retryIn = 40000
    /\ now > 0
    /\ rateLimitState[lastCall.profile].nextAttemptTime = now + 40000

\* The seconds a Retry-After value stands for, 0 when it is not a positive
\* number.
C15_Seconds(arg) ==
    IF arg \in {Num(5), Str(<<"5">>)} THEN 5
    ELSE IF arg \in {Num(10), Str(<<"1", "0">>)} THEN 10
    ELSE IF arg \in {Num(400), Str(<<"4", "0", "0">>)} THEN 400
    ELSE 0

\* C15: with a positive Retry-After value of s seconds recordRateLimit
\* waits min(MAX_DELAY_MS, s * 1000) in place of the exponential value; with
\* a zero, negative or non-numeric value it waits the exponential value.
\* A checkRateLimit made right after the call reports the profile limited
\* with that wait.
C15_RetryAfterWins ==
    (lastCall.op = "recordRateLimit" /\ lastCall.arg # Null) =>
        LET p == lastCall.profile
            n == rateLimitState[p].consecutiveErrors
            s == C15_Seconds(lastCall.arg)
            wait == IF s > 0
                    THEN (IF s * 1000 <= MAX_DELAY_MS
                          THEN s * 1000 ELSE MAX_DELAY_MS)
                    ELSE (IF BASE_DELAY_MS * (2 ^ n) <= MAX_DELAY_MS
                          THEN BASE_DELAY_MS * (2 ^ n) ELSE MAX_DELAY_MS)
            chk == checkRateLimit(rateLimitState, p, now)
        IN  /\ lastCall.retryIn = wait
            /\ chk.isLimited
            /\ chk.retryIn = wait

\* A 429 with "Retry-After: 10" came after an earlier error: the wait is
\* 10000 ms, where the exponential value would have been 20000.
C15_Witness ==
    /\ lastCall.op = "recordRateLimit"
    /\ lastCall.header = Str(<<"1", "0">>)
    /\ lastCall.was.consecutiveErrors = 1
    /\ lastCall.retryIn = 10000
    /\ checkRateLimit(rateLimitState, lastCall.profile, now).retryIn = 10000

\* C16: checkRateLimit(p) reports not limited when p has no record or is
\* not limited; when p is limited and now >= nextAttemptTime it clears the
\* flag and reports not limited; otherwise it reports limited with
\* retryIn = nextAttemptTime - now, which is positive.
C16_CheckReports ==
    lastCall.op = "checkRateLimit" =>
        LET was == lastCall.was
            rec == rateLimitState[lastCall.profile]
        IN  /\ ~was.present => ~lastCall.isLimited
            /\ ~was.isLimited => ~lastCall.isLimited
            /\ (was.isLimited /\ now >= was.nextAttemptTime) =>
                   ~lastCall.isLimited /\ ~rec.isLimited
            /\ (was.isLimited /\ now < was.nextAttemptTime) =>
                   /\ lastCall.isLimited
                   /\ rec.isLimited
                   /\ lastCall.retryIn = was.nextAttemptTime - now
                   /\ lastCall.retryIn > 0

\* checkRateLimit was called at the very end of the window of a limited
\* profile.
C16_Witness ==
    /\ lastCall.op = "checkRateLimit"
    /\ lastCall.was.isLimited
    /\ now = lastCall.was.nextAttemptTime
    /\ ~lastCall.isLimited

C18_Key(u) == nameOf(dgProfile(u.dg, u.provided))

\* The request of unit u on the wire was answered 429, leaving the unit v.
C18_Got429(u, v) ==
    /\ u.pc = "fetch"
    /\ u.wire
    /\ \/ /\ u.dg.mode = "chain"
          /\ \/ v.pc = "fetch" /\ v.dg.i > u.dg.i
             \/ /\ v.pc = "settled"
                /\ v.settled.value.error.kind = "Exhausted"
       \/ /\ u.dg.mode = "single"
          /\ v.pc = "settled"
          /\ v.settled.value.error.kind = "RateLimit429"

\* C18: no update of a profile's record is lost. Each 429 that a request
\* on the wire receives adds exactly 1 to the consecutiveErrors of its
\* profile, whatever other requests to that profile are in flight and in
\* whatever order their answers arrive.
C18_NoLostUpdate ==
    [][\A b \in 1..Len(batches) : \A k \in 1..Len(batches[b].units) :
          LET u == batches[b].units[k]
              v == batches'[b].units[k]
          IN  C18_Got429(u, v) =>
                  rateLimitState'[C18_Key(u)].consecutiveErrors =
                      rateLimitState[C18_Key(u)].consecutiveErrors + 1
      ]_vars

\* Two targets of one batch had requests to A in flight together and both
\* got 429: A has two consecutive errors on record.
C18_Witness ==
    /\ rateLimitState["A"].consecutiveErrors = 2
    /\ \E b \in 1..Len(batches) :
          /\ Len(batches[b].units) = 2
          /\ \A k \in 1..2 :
                LET u == batches[b].units[k]
                IN  /\ u.pc = "fetch"
                    /\ u.dg.lastError # Null
                    /\ u.dg.lastError.message = Rate429Msg("A")

\* The outcome of position k of a results array was cancelled.
C19_Cancelled(results, k) ==
    /\ results[k].status = "fulfilled"
    /\ ~results[k].value.success
    /\ results[k].value.error = Msg("Aborted")

\* The latencies of the first k positions, cancelled ones left out; a
\* rejected promise stands for latency 0.
RECURSIVE C19_Latency(_, _)
C19_Latency(results, k) ==
    IF k = 0 THEN 0
    ELSE C19_Latency(results, k - 1)
         + (IF results[k].status = "rejected" \/ C19_Cancelled(results, k)
            THEN 0 ELSE results[k].value.latency)

\* C19: in every result of aggregateResults, stats.total = stats.success +
\* stats.failed = the number of outcomes that were not cancelled; cancelled
\* outcomes are counted in neither and have no section in the markdown;
\* avgLatency is the mean latency of the outcomes that were not cancelled,
\* rounded to the nearest integer, and 0 when there is none.
C19_StatsOverNonCancelled ==
    lastCall.op = "aggregateResults" =>
        LET rs == lastCall.results
            st == lastCall.ret.stats
            items == lastCall.ret.markdown.items
            kept == {k \in 1..Len(rs) : ~C19_Cancelled(rs, k)}
            ok == {k \in kept : rs[k].status = "fulfilled"
                                   /\ rs[k].value.success}
            n == Cardinality(kept)
            sum == C19_Latency(rs, Len(rs))
        IN  /\ st.total = n
            /\ st.success = Cardinality(ok)
            /\ st.failed = Cardinality(kept \ ok)
            /\ st.total = st.success + st.failed
            /\ Len(items) = n
            /\ \A j \in 1..Len(items) :
                  ~(items[j].failed /\ items[j].error = Msg("Aborted"))
            /\ n = 0 => st.avgLatency = 0
            /\ n > 0 => /\ 2 * n * st.avgLatency <= 2 * sum + n
                        /\ 2 * sum + n < 2 * n * (st.avgLatency + 1)

\* aggregateResults was handed a success of 100 ms, a cancelled outcome and
\* a success of 101 ms: two are counted, and the mean 100.5 is rounded.
C19_Witness ==
    /\ lastCall.op = "aggregateResults"
    /\ Len(lastCall.results) = 3
    /\ lastCall.results[1].value.success
    /\ lastCall.results[1].value.latency = 100
    /\ C19_Cancelled(lastCall.results, 2)
    /\ lastCall.results[3].value.success
    /\ lastCall.results[3].value.latency = 101
    /\ lastCall.ret.stats =
          [total |-> 2, success |-> 2, failed |-> 0, avgLatency |-> 101]

\* C20: the markdown of a returned batch lists the targets whose outcome was
\* not cancelled, in the order of the npcs argument, in whatever order the
\* requests of the batch completed.
C20_InputOrder ==
    \A b \in 1..Len(batches) :
        LET B == batches[b]
        IN  (B.state = "returned" /\ B.npcs # <<>> /\ B.situation # "") =>
                LET items == B.result.markdown.items
                    out == B.result.results
                    kept == {k \in 1..Len(B.npcs) :
                                ~(~out[k].success
                                  /\ out[k].error = Msg("Aborted"))}
                    rank(k) == Cardinality({i \in kept : i <= k})
                    label(k) == IF B.npcs[k] # "" THEN B.npcs[k]
                                ELSE NpcLabels[k]
                IN  /\ Len(out) = Len(B.npcs)
                    /\ Len(items) = Cardinality(kept)
                    /\ \A k \in kept :
                          /\ items[rank(k)].npc = label(k)
                          /\ items[rank(k)].failed = ~out[k].success
                          /\ items[rank(k)].error = out[k].error

\* The second target of a batch was rejected before the first had even
\* sent its request, and the first then succeeded: the first is listed
\* first.
C20_Witness ==
    \E b \in 1..Len(batches) :
        /\ batches[b].state = "returned"
        /\ batches[b].npcs = <<"Alice", "">>
        /\ Len(batches[b].result.markdown.items) = 2
        /\ batches[b].result.results[1].success
        /\ ~batches[b].result.markdown.items[1].failed
        /\ batches[b].result.markdown.items[1].npc = "Alice"
        /\ batches[b].result.markdown.items[2].npc = "NPC_1"
        /\ batches[b].result.markdown.items[2].failed

\* C21: a target whose name is not the name of a known character gets a
\* failed outcome at once and no request is ever made for it: its promise
\* never awaits a fetch or a body, and its outcome is a failure.
C21_UnknownTargetNotDispatched ==
    \A b \in 1..Len(batches) : \A k \in 1..Len(batches[b].units) :
        LET u == batches[b].units[k]
        IN  batches[b].npcs[k] \notin CardNames =>
                /\ u.pc \notin {"fetch", "body"}
                /\ (u.pc = "settled" /\ u.settled.status = "fulfilled") =>
                       ~u.settled.value.success

\* C22: spawnNPCResponses called with no array, an empty array or an empty
\* situation returns at once (it does not throw), starts no request, and
\* its result has no results and stats total 0, success 0, failed 0.
C22_EmptyInputShortCircuits ==
    \A b \in 1..Len(batches) :
        LET B == batches[b]
        IN  (B.npcs = <<>> \/ B.situation = "") =>
                /\ B.state = "returned"
                /\ B.units = <<>>
                /\ B.result.results = <<>>
                /\ B.result.stats.total = 0
                /\ B.result.stats.success = 0
                /\ B.result.stats.failed = 0

\* spawnNPCResponses was called with two targets and an empty situation,
\* and with no targets and a situation.
C22_Witness ==
    /\ Len(batches) = 2
    /\ Len(batches[1].npcs) = 2 /\ batches[1].situation = ""
    /\ batches[1].result.markdown.kind = "No situation provided"
    /\ batches[2].npcs = <<>> /\ batches[2].situation # ""
    /\ batches[2].result.markdown.kind = "No NPCs specified"

\* C23: a call of spawnNPCResponses that returns early on empty input does
\* not abort the controller of any earlier batch and leaves
\* currentAbortController as it was.
C23_ShortCircuitIsNoOp ==
    [][(/\ Len(batches') = Len(batches) + 1
        /\ \/ batches'[Len(batches')].npcs = <<>>
           \/ batches'[Len(batches')].situation = "") =>
           /\ currentAbortController' = currentAbortController
           /\ \A b \in 1..Len(batches) :
                 batches'[b].aborted = batches[b].aborted
      ]_vars

C25_Names(skipped) == [j \in 1..Len(skipped) |-> skipped[j].name]

\* C25: getNextAvailableProfile(tier) returns the first profile of the
\* chain that is not rate limited, with skipped naming exactly the limited
\* profiles before it, in chain order. When every profile of the chain is
\* limited it returns profile null with the whole chain in skipped, which
\* is not empty then, while an empty chain gives null with nothing skipped.
C25_FirstAvailable ==
    [][lastCall'.op = "getNextAvailableProfile" =>
          LET chain == getProfilesForTier(tierProfiles, lastCall'.arg)
              ret == lastCall'.ret
              free == {j \in 1..Len(chain) :
                          ~limitedAt(rateLimitState, chain[j], now)}
          IN  /\ free = {} =>
                    /\ ret.profile = Null
                    /\ C25_Names(ret.skipped) = chain
                    /\ (chain # <<>>) = (ret.skipped # <<>>)
              /\ free # {} =>
                    LET f == CHOOSE j \in free : \A h \in free : j <= h
                    IN  /\ ret.profile = Profile(chain[f])
                        /\ C25_Names(ret.skipped) = SubSeq(chain, 1, f - 1)
              /\ \A j \in 1..Len(ret.skipped) :
                    /\ ret.skipped[j].reason.kind = "RateLimited"
                    /\ ret.skipped[j].reason.seconds > 0
      ]_vars

\* Both profiles of the chain <<A, B>> were limited when
\* getNextAvailableProfile was called: it returned null and skipped both.
C25_Witness ==
    /\ lastCall.op = "getNextAvailableProfile"
    /\ lastCall.arg = "standard"
    /\ lastCall.ret.profile = Null
    /\ C25_Names(lastCall.ret.skipped) = <<"A", "B">>
    /\ lastCall.ret.skipped[1].reason.seconds = 5

\* The profile a configured name stands for, "" when it stands for none.
C26_Resolves(n) ==
    IF n \in {"A", "a"} THEN "A" ELSE IF n = "B" THEN "B" ELSE ""

\* C26: getProfilesForTier(tier) returns the profiles of the names
\* configured for the tier, in the order of the configuration, leaving out
\* the names that stand for no profile; it returns the empty chain when the
\* tier has no configuration or an empty one.
C26_ChainInConfigOrder ==
    lastCall.op = "getProfilesForTier" =>
        LET tier == lastCall.arg
            ret == lastCall.ret
            names == IF tier \in DOMAIN tierProfiles
                     THEN tierProfiles[tier] ELSE <<>>
            kept == {j \in 1..Len(names) : C26_Resolves(names[j]) # ""}
            rank(j) == Cardinality({h \in kept : h <= j})
        IN  /\ Len(ret) = Cardinality(kept)
            /\ \A j \in kept : ret[rank(j)] = C26_Resolves(names[j])

\* The chain configured as <<"B", "ghost", "a">> resolved to <<B, A>>.
C26_Witness ==
    /\ lastCall.op = "getProfilesForTier"
    /\ lastCall.arg = "standard"
    /\ tierProfiles.standard = <<"B", "ghost", "a">>
    /\ lastCall.ret = <<"B", "A">>

C28_Tried(v) ==
    IF v.pc \in {"fetch", "body"} THEN v.dg.tried
    ELSE IF /\ v.pc = "settled"
            /\ v.settled.status = "fulfilled"
            /\ ~v.settled.value.success
            /\ v.settled.value.error.kind = "Exhausted"
    THEN v.settled.value.error.tried
    ELSE <<>>

\* C28: no request goes to a profile that is rate limited when the request
\* would be made. Every request issued in a step goes to a profile that is
\* not limited then; every chain entry passed over in the step was limited
\* and its record is left as it was; a single call refused by the check
\* leaves the whole rate limiter as it was.
C28_NoRequestWhileLimited ==
    [][\A b \in 1..Len(batches) : \A k \in 1..Len(batches[b].units) :
          LET u == batches[b].units[k]
              v == batches'[b].units[k]
              issued == /\ v.pc = "fetch"
                        /\ u.pc # "fetch" \/ v.dg.i # u.dg.i
              before == Len(C28_Tried(u))
              tried == C28_Tried(v)
              upto == IF issued THEN Len(tried) - 1 ELSE Len(tried)
          IN  /\ issued => ~limitedAt(rateLimitState, C18_Key(v), now)
              /\ \A j \in (before + 1)..upto :
                    /\ limitedAt(rateLimitState, tried[j], now)
                    /\ rateLimitState'[tried[j]] = rateLimitState[tried[j]]
              /\ (/\ u.pc \in {"resolving", "building"}
                  /\ v.pc = "settled"
                  /\ v.settled.status = "fulfilled"
                  /\ ~v.settled.value.success
                  /\ v.settled.value.error.kind = "RateLimited") =>
                     /\ limitedAt(rateLimitState,
                                  v.settled.value.error.profile, now)
                     /\ rateLimitState' = rateLimitState
      ]_vars

\* A target found A limited after one 429, passed it over without a
\* request and has its request on the wire to B.
C28_Witness ==
    /\ rateLimitState["A"].consecutiveErrors = 1
    /\ limitedAt(rateLimitState, "A", now)
    /\ \E b \in 1..Len(batches) : \E k \in 1..Len(batches[b].units) :
          LET u == batches[b].units[k]
          IN  /\ u.pc = "fetch"
              /\ u.wire
              /\ u.dg.tried = <<"A", "B">>
              /\ u.dg.lastError # Null
              /\ u.dg.lastError.message = RateLimitedMsg("A")

C30_Start(profiles, provided) ==
    IF /\ provided # Null
       /\ \E j \in 1..Len(profiles) : profiles[j] = provided.name
    THEN CHOOSE j \in 1..Len(profiles) :
            /\ profiles[j] = provided.name
            /\ \A h \in 1..(j - 1) : profiles[h] # provided.name
    ELSE 1

\* C30: when the profile passed to directGenerate is entry i of the tier's
\* chain, the entries tried are those from i on, in order, and no entry
\* before i is ever tried; when the profile is not in the chain, or none is
\* passed, the entries are tried from the first on.
C30_StartsAtPreferred ==
    /\ \A b \in 1..Len(batches) : \A k \in 1..Len(batches[b].units) :
          LET u == batches[b].units[k]
              start == C30_Start(u.dg.profiles, u.provided)
          IN  (u.pc \in {"fetch", "body"} /\ u.dg.mode = "chain") =>
                  /\ u.dg.profiles = getProfilesForTier(tierProfiles, u.tier)
                  /\ u.dg.i >= start
                  /\ u.dg.tried = SubSeq(u.dg.profiles, start, u.dg.i)
    /\ (lastCall.op = "directGenerate" /\ batches # <<>>) =>
          LET u == batches[Len(batches)].units[1]
              chain == getProfilesForTier(tierProfiles, "standard")
              start == C30_Start(chain, lastCall.arg)
          IN  (/\ u.pc = "settled"
               /\ ~u.settled.value.success
               /\ u.settled.value.error.kind = "Exhausted") =>
                  u.settled.value.error.tried =
                      SubSeq(chain, start, Len(chain))

\* directGenerate was called with profile B for the chain <<A, B, C>>: B
\* was tried, then C, and A has never been looked at.
C30_Witness ==
    /\ tierProfiles.standard = <<"A", "B", "C">>
    /\ lastCall.op = "directGenerate"
    /\ lastCall.arg = Profile("B")
    /\ ~rateLimitState["A"].present
    /\ batches # <<>>
    /\ LET u == batches[Len(batches)].units[1]
       IN  /\ u.pc = "fetch"
           /\ u.provided = Profile("B")
           /\ u.dg.i = 3
           /\ u.dg.tried = <<"B", "C">>

\* C31: if every await of a unit settles in the end, every call of
\* spawnNPCResponses returns, also when its batch is cancelled or
\* superseded; and a call has returned only when each of its units has
\* settled.
C31_SpawnReturns ==
    /\ \A b \in 1..MaxBatches :
          (Len(batches) >= b) ~>
              (Len(batches) >= b /\ batches[b].state = "returned")
    /\ [](\A b \in 1..Len(batches) :
             batches[b].state = "returned" =>
                 \A k \in 1..Len(batches[b].units) :
                     batches[b].units[k].pc = "settled")

\* A superseded batch of two targets has returned.
C31_Witness ==
    /\ Len(batches) = 2
    /\ batches[1].aborted
    /\ Len(batches[1].units) = 1
    /\ batches[1].units[1].pc = "settled"
    /\ batches[1].state = "returned"
    /\ batches[1].result.stats.total = 1
    /\ batches[2].state = "running"
    /\ Len(batches[2].units) = 1


\* C32: when a call of withInputLock settles, the input is unlocked,
\* whether its function fulfilled, rejected or threw at once, and the call
\* settles as its function did: an error of the function is the error of
\* the call.
C32_Settling(i) ==
    /\ i \in 1..Len(lockCalls')
    /\ lockCalls'[i].pc = "settled"
    /\ i > Len(lockCalls) \/ lockCalls[i].pc = "running"

C32_UnlockedAfterSettle ==
    [][\A i \in 1..MaxLockCalls :
          C32_Settling(i) =>
              /\ ~isInputLocked(page')
              /\ lockCalls'[i].settled = lockCalls'[i].fn]_vars

C32_Witness ==
    /\ page.button.present /\ page.textarea.present
    /\ Len(lockCalls) = 2
    /\ lockCalls[1].pc = "settled" /\ ~lockCalls[1].sync
    /\ lockCalls[1].settled.status = "rejected"
    /\ lockCalls[2].pc = "settled" /\ lockCalls[2].sync
    /\ ~isInputLocked(page)
    /\ ~page.button.disabled /\ ~page.textarea.disabled

\* C38: on a page that has the send button or the textarea, the input is
\* locked as long as the function of some withInputLock call is running,
\* also when two calls overlap.
C38_LockedWhileRunning ==
    (page.button.present \/ page.textarea.present) =>
        \A i \in 1..Len(lockCalls) :
            lockCalls[i].pc = "running" => isInputLocked(page)

\* C33 as claimed: no tool is registered twice with no call of
\* unregisterTools in between, the flag is false after every call of
\* unregisterTools, and after a call of registerTools that was not skipped
\* it tells whether that call registered a tool.
C33_FalseAfterUnregister ==
    /\ \A n \in ToolNameSet : toolLog.since[n] <= 1
    /\ toolLog.op = "unregisterTools" => ~toolsRegistered
    /\ toolLog.op = "registerTools" =>
           toolsRegistered = (toolLog.was \/ toolLog.registered # {})

\* C33: no tool is registered twice with no call of unregisterTools in
\* between: a call of registerTools made while the flag is set registers
\* nothing and returns true. A call made while it is clear sets the flag,
\* and returns true, exactly when it registered a tool. unregisterTools
\* clears the flag unless the flag was set and the context has no
\* unregisterFunctionTool; then the flag stays set.
C33_RegisteredOnce ==
    /\ \A n \in ToolNameSet : toolLog.since[n] <= 1
    /\ (toolLog.op = "registerTools" /\ toolLog.was) =>
           toolsRegistered /\ toolLog.ret /\ toolLog.registered = {}
    /\ (toolLog.op = "registerTools" /\ ~toolLog.was) =>
           /\ toolsRegistered = (toolLog.registered # {})
           /\ toolLog.ret = toolsRegistered
    /\ toolLog.op = "unregisterTools" =>
           toolsRegistered = (toolLog.was /\ ~toolLog.hostCan)

C33_Witness ==
    /\ toolLog.op = "registerTools"
    /\ toolLog.was
    /\ toolLog.calls = 3
    /\ toolManager = ToolNameSet \ {"query_npc_knowledge"}
    /\ \A n \in toolManager : toolLog.since[n] = 1

\* C34: whatever calls of addGeneratedResponse were made, the
\* generatedResponses of a session character are the responses added to it
\* most recently, in the order they were added, and at most 10 of them.
C34_Recent(log) ==
    LET n == IF Len(log) < 10 THEN Len(log) ELSE 10
    IN  [i \in 1..n |-> log[Len(log) - n + i]]

C34_RollingWindow ==
    \A k \in SessionKeys :
        sessionCharacters[k] # Null =>
            /\ Len(sessionCharacters[k].generatedResponses) <= 10
            /\ sessionCharacters[k].generatedResponses =
                   C34_Recent(sessionLog[k])

C34_Witness ==
    /\ Len(sessionLog["bob"]) = 12
    /\ sessionLog["bob"][1] = "a" /\ sessionLog["bob"][2] = "a"
    /\ sessionLog["bob"][3] = "b" /\ sessionLog["bob"][12] = "a"
    /\ Len(sessionCharacters["bob"].generatedResponses) = 10
    /\ sessionCharacters["bob"].generatedResponses[1] = "b"

\* C35 as claimed: a call of recordRateLimit for a profile that is limited
\* at the time of the call leaves nextAttemptTime no earlier than it was.
C35_NeverEarlier ==
    (/\ lastCall.op = "recordRateLimit"
     /\ lastCall.was.isLimited
     /\ now < lastCall.was.nextAttemptTime) =>
        rateLimitState[lastCall.profile].nextAttemptTime
            >= lastCall.was.nextAttemptTime

\* C35: a call of recordRateLimit sets nextAttemptTime to the time of the
\* call plus the wait it returns, which is positive and at most
\* MAX_DELAY_MS, whatever time was on record; and of two calls in a row for
\* one profile without a Retry-After value the second never moves
\* nextAttemptTime earlier.
C35_WindowRestarts ==
    [][lastCall'.op = "recordRateLimit" =>
          LET p == lastCall'.profile
          IN  /\ rateLimitState'[p].nextAttemptTime = now + lastCall'.retryIn
              /\ lastCall'.retryIn > 0
              /\ lastCall'.retryIn <= MAX_DELAY_MS
              /\ (/\ lastCall.op = "recordRateLimit"
                  /\ lastCall.profile = p
                  /\ lastCall.arg = Null /\ lastCall'.arg = Null) =>
                     rateLimitState'[p].nextAttemptTime
                         >= rateLimitState[p].nextAttemptTime]_vars

C35_Witness ==
    /\ lastCall.op = "recordRateLimit"
    /\ lastCall.profile = "A"
    /\ lastCall.arg = Num(5)
    /\ lastCall.was.isLimited
    /\ lastCall.was.nextAttemptTime = 300000
    /\ now = 0
    /\ rateLimitState["A"].nextAttemptTime = 5000

\* C36 as claimed: no clear being called, a profile that check reports
\* limited is reported limited at every later time before the
\* nextAttemptTime on record, whatever the targets in flight do.
C36_LimitHolds ==
    [][\A p \in ProfileKeys :
          (limitedAt(rateLimitState, p, now)
              /\ now' < rateLimitState[p].nextAttemptTime) =>
                 checkRateLimit(rateLimitState', p, now').isLimited]_vars

\* The request of some unit to profile p ends well in this step.
C36_SuccessOn(p) ==
    \E b \in 1..Len(batches) : \E k \in 1..Len(batches[b].units) :
        /\ batches[b].units[k].pc = "body"
        /\ C18_Key(batches[b].units[k]) = p
        /\ batches'[b].units[k].pc = "settled"
        /\ batches'[b].units[k].settled.status = "fulfilled"
        /\ batches'[b].units[k].settled.value.success

\* C36: a profile that is limited stays limited, with the nextAttemptTime
\* on record unless a further 429 of it is recorded, until a request to it
\* ends well: check reports it limited at every time before the
\* nextAttemptTime last recorded. That success, also of a request that was
\* in flight when the 429 was recorded, lifts the limit: the profile is not
\* limited and has no error on record.
C36_LimitHoldsUntilSuccess ==
    [][\A p \in ProfileKeys :
          /\ (limitedAt(rateLimitState, p, now) /\ ~C36_SuccessOn(p)) =>
                 /\ rateLimitState'[p].isLimited
                 /\ \/ rateLimitState'[p].nextAttemptTime
                          = rateLimitState[p].nextAttemptTime
                    \/ rateLimitState'[p].consecutiveErrors
                          = rateLimitState[p].consecutiveErrors + 1
                 /\ now' < rateLimitState'[p].nextAttemptTime =>
                        checkRateLimit(rateLimitState', p, now').isLimited
          /\ C36_SuccessOn(p) =>
                 /\ ~checkRateLimit(rateLimitState', p, now').isLimited
                 /\ rateLimitState'[p].consecutiveErrors = 0
                 /\ rateLimitState'[p].nextAttemptTime = 0]_vars

\* Two targets had requests to A in flight; the first was answered 429, A
\* was limited and the target moved on to B; then the second's request to
\* A ended well, and A is not limited although no time has passed.
C36_Witness ==
    /\ now = 0
    /\ Len(batches) = 1
    /\ Len(batches[1].units) = 2
    /\ batches[1].units[1].pc = "fetch"
    /\ batches[1].units[1].dg.lastError # Null
    /\ batches[1].units[1].dg.lastError.message = Rate429Msg("A")
    /\ batches[1].units[2].pc = "settled"
    /\ batches[1].units[2].settled.status = "fulfilled"
    /\ batches[1].units[2].settled.value.success
    /\ rateLimitState["A"].present
    /\ ~limitedAt(rateLimitState, "A", now)
    /\ rateLimitState["A"].nextAttemptTime = 0

\* A response that is an error other than 429: the transport failed or the
\* status is neither 2xx nor 429.
C37_OtherErrors ==
    {resp \in Responses :
        \/ resp.kind = "neterr"
        \/ resp.kind = "http" /\ resp.status > 299 /\ resp.status # 429}

\* C37: a step in which the request of a unit ends with an error other
\* than 429 (the transport fails, the status is neither 2xx nor 429, the
\* body cannot be read) or is cancelled leaves the consecutiveErrors and
\* the nextAttemptTime of every profile as they were.
C37_OtherErrorsLeaveLimiter ==
    [][\A b \in 1..MaxBatches, k \in 1..MaxTargets :
          (\/ \E resp \in C37_OtherErrors : FetchResponds(b, k, resp)
           \/ BodyRead(b, k, FALSE)
           \/ FetchAborted(b, k)) =>
              \A p \in ProfileKeys :
                  /\ rateLimitState'[p].consecutiveErrors =
                         rateLimitState[p].consecutiveErrors
                  /\ rateLimitState'[p].nextAttemptTime =
                         rateLimitState[p].nextAttemptTime]_vars

\* A was answered 429 and is limited; the target moved on to B, B answered
\* 500 and the target failed with that: B has no error on record and no
\* window, A's record is as the 429 left it.
C37_Witness ==
    /\ now = 0
    /\ rateLimitState["A"].consecutiveErrors = 1
    /\ rateLimitState["A"].nextAttemptTime = calculateBackoff(1)
    /\ rateLimitState["B"].present
    /\ rateLimitState["B"].consecutiveErrors = 0
    /\ rateLimitState["B"].nextAttemptTime = 0
    /\ \E b \in 1..Len(batches) : \E k \in 1..Len(batches[b].units) :
          /\ batches[b].units[k].pc = "settled"
          /\ batches[b].units[k].settled.status = "fulfilled"
          /\ ~batches[b].units[k].settled.value.success
          /\ batches[b].units[k].settled.value.error = HttpMsg("B", 500)

\* C39: once a call of promoteToLorebook for a name has returned true,
\* getPromotionStatus reports level 1 or more for it, getPromotableCharacters
\* does not list it, and its lorebook entry was created once.
C39_PromotedOnce ==
    /\ \A i \in 1..Len(promotions) :
          (promotions[i].pc = "returned" /\ promotions[i].ret) =>
              LET status == getPromotionStatus(sessionCharacters,
                                               promotions[i].name)
                  listed == getPromotableCharacters(sessionCharacters)
              IN  /\ status # Null
                  /\ status.currentLevel >= 1
                  /\ \A j \in 1..Len(listed) : listed[j] # status.name
    /\ \A e \in EntryKeys : lorebook[e] <= 1
====
